---------------------------- MODULE Spec2Model ----------------------------
(***************************************************************************)
(* A model of the context-aggregator: the three loading strategies, the    *)
(* relevance scorer, the content chunker and the aggregator's dispatch.    *)
(*                                                                         *)
(* Paths are sequences of entry names relative to the root (<<>> is the    *)
(* root itself).  A file's content is represented by what the code reads   *)
(* of it: its length in characters, and the number of occurrences of the   *)
(* query term.  The file system is fixed during a run and answers          *)
(* listDirectory / stat / readFile, one of which may fail.                 *)
(***************************************************************************)
EXTENDS Integers, Sequences, FiniteSets, TLC

VARIABLES
    fs,          \* the file system: lengths, the failing operation, the cwd
    strategies,  \* ContextAggregator.strategies: name -> strategy instance
    call,        \* the call in progress: api, strategy name, options
    pc,          \* where the call is
    level,       \* Breadth-First's level
    queue,       \* the candidates of the stage not yet evaluated
    files,       \* LoadedContext.files: the keys in insertion order
    totalTokens, \* LoadedContext.totalTokens
    sub,         \* the files / tokensUsed / tokenBudget of a budgeted helper
    info,        \* metadata: projectInfo, relevance, focusSummary
    hist,        \* history: what was evaluated, fs operations, analyzer calls
    clock,       \* Date.now(), in days
    scoring,     \* RelevanceScorer.scoreFiles: the call in progress and its result
    chunking,    \* ContextOptimizer.chunkContext: the call in progress and its result
    optimizing,  \* ContextOptimizer's other operations: the call in progress, its result
    sorting,     \* BreadthFirstLoadingStrategy.sortEntries: the entries and the result
    registered,  \* the registerStrategy calls made so far, oldest first
    pair         \* a second call in progress: its locals while it is suspended

vars == <<fs, strategies, call, pc, level, queue, files, totalTokens, sub, info, hist,
          clock, scoring, chunking, optimizing, sorting, registered, pair>>

(***************************************************************************)
(* Bounds of the model.                                                    *)
(***************************************************************************)
MaxBudget == 5

(***************************************************************************)
(* Generic helpers on sequences.                                           *)
(***************************************************************************)
Range(s) == {s[i] : i \in 1..Len(s)}

Contains(s, x) == \E i \in 1..Len(s) : s[i] = x

RECURSIVE SumSeq(_)
SumSeq(s) == IF s = <<>> THEN 0 ELSE Head(s) + SumSeq(Tail(s))

RECURSIVE Flatten(_)
Flatten(ss) == IF ss = <<>> THEN <<>> ELSE Head(ss) \o Flatten(Tail(ss))

RECURSIVE Filter(_, _)
Filter(s, keep) ==
    IF s = <<>> THEN <<>>
    ELSE (IF Head(s) \in keep THEN <<Head(s)>> ELSE <<>>) \o Filter(Tail(s), keep)

Absent == "<absent>"

(***************************************************************************)
(* The file tree.                                                          *)
(***************************************************************************)
Root == <<>>

DirEntries(dir) ==
    CASE dir = <<>>        -> <<"src", "docs", "README.md", "package.json", "index.ts",
                                "tmp">>
      [] dir = <<"src">>   -> <<"auth.ts", "util.ts">>
      [] dir = <<"docs">>  -> <<"faq.md", "guide.md">>
      [] dir = <<"tmp">>   -> <<"util.ts">>
      [] OTHER             -> <<>>

Dirs == {<<>>, <<"src">>, <<"docs">>, <<"tmp">>}

FilePaths == {<<"README.md">>, <<"package.json">>, <<"index.ts">>,
              <<"src", "auth.ts">>, <<"src", "util.ts">>, <<"docs", "faq.md">>,
              <<"docs", "guide.md">>, <<"tmp", "util.ts">>}

Join(dir, entry) == Append(dir, entry)

Basename(p) == p[Len(p)]


(***************************************************************************)
(* What the code reads of an entry name.                                   *)
(***************************************************************************)
\* path.extname(name).toLowerCase()
ExtName(name) ==
    CASE name \in {"index.ts", "auth.ts", "util.ts", "main.test.ts"} -> ".ts"
      [] name \in {"README.md", "faq.md", "guide.md"} -> ".md"
      [] name = "package.json"                       -> ".json"
      [] name = "tmp.log"                            -> ".log"
      [] OTHER                                       -> ""

\* name.split('.').pop().toLowerCase(): the whole name when it holds no dot
LastDotPart(name) ==
    CASE name \in {"index.ts", "auth.ts", "util.ts"} -> "ts"
      [] name \in {"README.md", "faq.md", "guide.md"} -> "md"
      [] name = "package.json"                       -> "json"
      [] OTHER                                       -> name

\* name.startsWith('.')
StartsWithDot(name) == name \in {".git", ".github", ".env.example"}

\* a.localeCompare(b) < 0, as the position in the collation order
LocaleOrder == <<"app.ts", "auth.ts", "docs", "faq.md", "guide.md", "index.py", "index.ts",
                 "main.py", "package.json", "README.md", "src", "tmp", "util.ts">>

LocaleRank(name) == CHOOSE i \in 1..Len(LocaleOrder) : LocaleOrder[i] = name

\* new RegExp(glob with * -> .* (or [^/]*) and ? -> ., 'i').test(text): the
\* expression is not anchored, so "*.ts" finds any character followed by "ts"
PatternMatches(pattern, name) ==
    CASE pattern = "*.ts" -> name \in {"index.ts", "auth.ts", "util.ts"}
      [] pattern = "*.md" -> name \in {"README.md", "faq.md", "guide.md"}
      [] OTHER            -> FALSE

(***************************************************************************)
(* The file system's answers.  fs.fault names the one operation that       *)
(* fails (op = "none": no operation fails).                                *)
(***************************************************************************)
NoFault == [op |-> "none", path |-> <<>>, code |-> "EIO"]

ListFails(dir) == fs.fault.op = "list" /\ fs.fault.path = dir

StatFails(p) == fs.fault.op = "stat" /\ fs.fault.path = p

ReadFails(p) == p \notin FilePaths \/ (fs.fault.op = "read" /\ fs.fault.path = p)

Exists(p) == p \in FilePaths \cup Dirs

\* Math.ceil(content.length / 4), the strategies' estimateTokens
EstimateTokens(len) == (len + 3) \div 4

Tokens(p) == EstimateTokens(fs.len[p])

(***************************************************************************)
(* Stable sort: the permutation of 1..n that orders keys ascending and     *)
(* keeps equal keys in index order (Array.prototype.sort is stable).       *)
(***************************************************************************)
RECURSIVE InsertIdx(_, _, _)
InsertIdx(i, s, keys) ==
    IF s = <<>> THEN <<i>>
    ELSE IF keys[Head(s)] <= keys[i] THEN <<Head(s)>> \o InsertIdx(i, Tail(s), keys)
    ELSE <<i>> \o s

RECURSIVE SortIdx(_, _)
SortIdx(n, keys) == IF n = 0 THEN <<>> ELSE InsertIdx(n, SortIdx(n - 1, keys), keys)

\* v is evaluated once and handed to F as a value
Bind(v, F(_)) == CHOOSE out \in {F(x) : x \in {v}} : TRUE

StableSortAsc(items, keys) ==
    Bind(<<items, keys>>, LAMBDA a :
         Bind(SortIdx(Len(a[1]), a[2]), LAMBDA perm : [i \in 1..Len(a[1]) |-> a[1][perm[i]]]))

(***************************************************************************)
(* Breadth-first strategy: helpers.                                        *)
(***************************************************************************)
DefaultMaxTokens == 8000
BFDefaultMaxDepth == 5

\* options.maxDepth || 5
BFMaxDepth == IF call.opts.maxDepth = 0 THEN BFDefaultMaxDepth ELSE call.opts.maxDepth

\* options.maxTokens || 8000
MaxTokens == IF call.opts.maxTokens = 0 THEN DefaultMaxTokens ELSE call.opts.maxTokens

IsIgnoredDirectory(name) ==
    \/ name \in {"node_modules", ".git", ".svn", ".hg", "dist", "build", "coverage",
                 ".cache", ".next", ".nuxt", ".turbo", "venv", "__pycache__",
                 ".pytest_cache", ".mypy_cache", "vendor", "tmp", "temp"}
    \/ StartsWithDot(name)

BFPriority(name) ==
    CASE name \in {"README.md", "readme.md"} -> 1
      [] name = "package.json"               -> 2
      [] name = "tsconfig.json"              -> 3
      [] name \in {"index.ts", "index.js"}   -> 4
      [] name \in {"main.ts", "main.js"}     -> 5
      [] name \in {"app.ts", "app.js"}       -> 6
      [] OTHER                               -> 999

SortEntries(entries) ==
    StableSortAsc(entries,
        [i \in 1..Len(entries) |->
            BFPriority(entries[i]) * (Len(LocaleOrder) + 1) + LocaleRank(entries[i])])

BFShouldExclude(entry) ==
    \/ IsIgnoredDirectory(entry)
    \/ /\ call.opts.excludePatterns.present
       /\ \E i \in 1..Len(call.opts.excludePatterns.items) :
              PatternMatches(call.opts.excludePatterns.items[i], entry)

BFShouldIncludeFile(filename) ==
    IF /\ call.opts.fileTypes.present
       /\ call.opts.fileTypes.items # <<>>
       /\ LastDotPart(filename) # ""
       /\ ~Contains(call.opts.fileTypes.items, "." \o LastDotPart(filename))
    THEN FALSE
    ELSE IF call.opts.includePatterns.present
    THEN \E i \in 1..Len(call.opts.includePatterns.items) :
             PatternMatches(call.opts.includePatterns.items[i], filename)
    ELSE /\ LastDotPart(filename) # ""
         /\ ("." \o LastDotPart(filename)) \in
                {".ts", ".tsx", ".js", ".jsx", ".py", ".go", ".rs", ".java", ".json",
                 ".yaml", ".yml", ".md", ".txt", ".env.example"}

RECURSIVE FindDirs(_, _, _)
FindDirs(cur, lvl, target) ==
    IF lvl > target THEN <<>>
    ELSE IF lvl = target THEN <<cur>>
    ELSE IF ListFails(cur) THEN <<>>
    ELSE Flatten([i \in 1..Len(DirEntries(cur)) |->
            LET full == Join(cur, DirEntries(cur)[i]) IN
            IF \/ IsIgnoredDirectory(DirEntries(cur)[i])
               \/ StatFails(full)
               \/ full \notin Dirs
            THEN <<>>
            ELSE FindDirs(full, lvl + 1, target)])

GetDirectoriesAtLevel(targetLevel) ==
    IF targetLevel = 0 THEN <<Root>> ELSE FindDirs(Root, 0, targetLevel)

(***************************************************************************)
(* Relevance scorer.  Scores are exact rationals held as integers in units *)
(* of 1/ScoreScale, so that the weights (tenths), the 0.1 and 0.2          *)
(* penalties and the 1.5 boosts are exact.                                 *)
(***************************************************************************)
ScoreScale == 200 * 10

Pts(n) == n * ScoreScale

Clamp(lo, hi, x) == IF x < lo THEN lo ELSE IF x > hi THEN hi ELSE x

KeywordWeight(k) ==
    CASE k \in {"main", "index"}                                     -> 10
      [] k \in {"app", "core"}                                       -> 9
      [] k \in {"api", "service", "controller", "model"}             -> 8
      [] k \in {"interface", "type", "schema", "config"}             -> 7
      [] k \in {"util", "helper", "lib", "common", "component",
                "module", "route", "middleware"}                     -> 5
      [] k \in {"test", "spec", "mock", "example"}                   -> 2
      [] k \in {"demo", "sample", "backup", "old"}                   -> 1
      [] k \in {"deprecated", "legacy", "temp", "tmp"}               -> -5
      [] k \in {"node_modules", "dist", "build", "coverage"}         -> -10

\* the keywords k of the table with name.toLowerCase().includes(k)
KeywordsIn(name) ==
    CASE name = "index.ts"      -> {"index"}
      [] name = "util.ts"       -> {"util"}
      [] name = "legacy"        -> {"legacy"}
      [] name \in {"tmp.log", "tmp"} -> {"tmp"}
      [] name = "main.test.ts"  -> {"main", "test"}
      [] OTHER                  -> {}

RECURSIVE SumWeights(_)
SumWeights(ks) ==
    IF ks = {} THEN 0
    ELSE LET k == CHOOSE x \in ks : TRUE IN KeywordWeight(k) + SumWeights(ks \ {k})

\* path.parse(filename).name.toLowerCase()
NameWithoutExt(name) ==
    CASE name = "index.ts"     -> "index"
      [] name = "main.test.ts" -> "main.test"
      [] OTHER                 -> name

CalculatePathScore(p) ==
    Clamp(0, 100,
          50 + SumSeq([i \in 1..Len(p) |-> SumWeights(KeywordsIn(p[i]))])
             + (IF Contains(p, "src") \/ Contains(p, "lib") THEN 10 ELSE 0)
             - (IF Len(p) > 4 THEN (Len(p) - 4) * 2 ELSE 0))

CalculateNameScore(name) ==
    Clamp(0, 100,
          50 + (IF NameWithoutExt(name) \in {"index", "main", "app", "server", "api"}
                THEN 30 ELSE 0)
             + SumWeights(KeywordsIn(name))
             - (IF KeywordsIn(name) \cap {"test", "spec"} # {} THEN 20 ELSE 0)
             - (IF Len(name) > 50 THEN 10 ELSE 0))

\* path.extname(filePath).toLowerCase()
CalculateTypeExt(p) == ExtName(Basename(p))

CalculateTypeScore(p) ==
    LET ext == CalculateTypeExt(p) IN
    CASE ext = ".ts"   -> 90
      [] ext = ".json" -> 60
      [] ext = ".md"   -> 50
      [] ext = ".log"  -> 20
      [] OTHER         -> 30

\* contextDepth = 0 when no context path is given
CalculateDepthScore(p, contextDepth) ==
    LET depth == Len(p)
        relativeDepth == depth - contextDepth IN
    IF contextDepth # 0
    THEN CASE relativeDepth = 0 -> 100
           [] relativeDepth = 1 -> 90
           [] relativeDepth = 2 -> 70
           [] OTHER -> IF 100 - relativeDepth * 10 < 0 THEN 0 ELSE 100 - relativeDepth * 10
    ELSE CASE depth <= 3 -> 90
           [] depth <= 5 -> 70
           [] depth <= 7 -> 50
           [] OTHER -> IF 100 - depth * 5 < 0 THEN 0 ELSE 100 - depth * 5

\* getStats / readFile of a path as the scorer passes it: relative to the
\* process's working directory
ScorerStatOk(p) == fs.cwdIsRoot /\ p \in FilePaths /\ ~StatFails(p)

ScorerReadOk(p) == fs.cwdIsRoot /\ ~ReadFails(p)

KB == 1024

CalculateSizeScore(p) ==
    IF ~ScorerStatOk(p) THEN 50
    ELSE LET size == fs.len[p] IN
         CASE size >= KB /\ size <= 50 * KB        -> 100
           [] size > 50 * KB /\ size <= 200 * KB   -> 80
           [] size < KB                            -> 20
           [] size > 200 * KB /\ size <= 500 * KB  -> 60
           [] size > 500 * KB /\ size <= 1000 * KB -> 40
           [] OTHER                                -> 20

\* now = Date.now() and the modification time, both in whole days
CalculateRecencyScore(p, now) ==
    IF ~ScorerStatOk(p) THEN 50
    ELSE LET days == now - fs.mtime[p] IN
         CASE days < 1   -> 100
           [] days < 7   -> 90
           [] days < 30  -> 70
           [] days < 90  -> 50
           [] days < 365 -> 30
           [] OTHER      -> 10

CalculateRelevance(p, contextDepth, now) ==
    [pathScore    |-> CalculatePathScore(p),
     nameScore    |-> CalculateNameScore(Basename(p)),
     typeScore    |-> CalculateTypeScore(p),
     depthScore   |-> CalculateDepthScore(p, contextDepth),
     sizeScore    |-> CalculateSizeScore(p),
     recencyScore |-> CalculateRecencyScore(p, now)]

\* query.toLowerCase().split(/\s+/).filter(term => term.length > 2)
QueryTerms(query) ==
    CASE query = "auth"     -> <<"auth">>
      [] query = "auth src" -> <<"auth", "src">>
      [] OTHER              -> <<>>

NameHasTerm(name, term) ==
    \/ term = "auth" /\ name = "auth.ts"
    \/ term = "src" /\ name = "src"

Min(a, b) == IF a < b THEN a ELSE b

CalculateQueryRelevance(p, query) ==
    LET terms == QueryTerms(query)
        inName == SumSeq([i \in 1..Len(terms) |->
                     IF NameHasTerm(Basename(p), terms[i]) THEN 20 ELSE 0])
        inPath == SumSeq([i \in 1..Len(terms) |->
                     IF \E j \in 1..Len(p) : NameHasTerm(p[j], terms[i]) THEN 10 ELSE 0])
        inText == IF ScorerStatOk(p) /\ fs.len[p] < 100 * KB /\ ScorerReadOk(p)
                  THEN SumSeq([i \in 1..Len(terms) |-> Min(fs.occ[p][terms[i]] * 2, 30)])
                  ELSE 0 IN
    Min(inName + inPath + inText, 100)

\* the weights in tenths
DefaultWeights ==
    [pathScore |-> 15, nameScore |-> 20, typeScore |-> 12, depthScore |-> 8,
     sizeScore |-> 5, recencyScore |-> 7, queryScore |-> 25]

PathMatches(pattern, p) == \E i \in 1..Len(p) : PatternMatches(pattern, p[i])

AnyMatch(patterns, p) == \E i \in 1..Len(patterns) : PathMatches(patterns[i], p)

\* the weighted sum, in tenths
WeightedSum(p, criteria, factors, weights) ==
    factors.pathScore * weights.pathScore
    + factors.nameScore * weights.nameScore
    + factors.typeScore * weights.typeScore
    + factors.depthScore * weights.depthScore
    + factors.sizeScore * weights.sizeScore
    + factors.recencyScore * weights.recencyScore
    + (IF criteria.query \notin {Absent, ""}
       THEN CalculateQueryRelevance(p, criteria.query)
            * (IF weights.queryScore = 0 THEN 20 ELSE weights.queryScore)
       ELSE 0)

ClampScoreLowerOnly(score) == IF score < 0 THEN 0 ELSE score

\* Math.max(0, Math.min(100, score))
ClampScore(score) == Clamp(0, Pts(100), score)

\* the score before the clamp, in units of 1 / ScoreScale
RawScore(p, criteria, factors) ==
    LET weights == IF criteria.weights.present THEN criteria.weights.w ELSE DefaultWeights
        s0 == WeightedSum(p, criteria, factors, weights) * (ScoreScale \div 10)
        s1 == IF /\ criteria.fileTypes.present
                 /\ criteria.fileTypes.items # <<>>
                 /\ ~Contains(criteria.fileTypes.items, CalculateTypeExt(p))
              THEN s0 \div 10 ELSE s0
        s2 == IF criteria.includePatterns.present
                 /\ ~AnyMatch(criteria.includePatterns.items, p)
              THEN s1 \div 5 ELSE s1 IN
    IF criteria.excludePatterns.present /\ AnyMatch(criteria.excludePatterns.items, p)
    THEN 0 ELSE s2

ScoreFile(p, criteria, now) ==
    Bind(CalculateRelevance(p, criteria.contextDepth, now), LAMBDA factors :
         [path |-> p, score |-> ClampScore(RawScore(p, criteria, factors)),
          factors |-> factors])

\* Promise.all keeps the input order; then sort by score descending; then the
\* threshold filter (threshold = 0: none given)
SortAndFilter(scored, criteria) ==
    Bind(scored, LAMBDA sc :
         Bind(StableSortAsc(sc, [i \in 1..Len(sc) |-> 0 - sc[i].score]), LAMBDA sorted :
              IF criteria.threshold # 0
              THEN SelectSeq(sorted, LAMBDA f : f.score >= Pts(criteria.threshold))
              ELSE sorted))

ScoreFiles(paths, criteria, now) ==
    Bind(paths, LAMBDA ps :
         SortAndFilter([i \in 1..Len(ps) |-> ScoreFile(ps[i], criteria, now)], criteria))

NoList == [present |-> FALSE, items |-> <<>>]

ListOf(items) == [present |-> TRUE, items |-> items]

\* the segments of the root path '/test/project' split at the separator
RootSegments == 3

(***************************************************************************)
(* Focused strategy: helpers.                                              *)
(***************************************************************************)
FocusedDefaultMaxDepth == 10

\* options.maxDepth || 10
FocusedMaxDepth ==
    IF call.opts.maxDepth = 0 THEN FocusedDefaultMaxDepth ELSE call.opts.maxDepth

FocusedShouldExclude(filename, fullPath) ==
    \/ filename \in {"node_modules", ".git", ".svn", ".hg", "dist", "build", "coverage",
                     ".cache", ".next", ".nuxt", ".turbo", "venv", "__pycache__",
                     ".pytest_cache", ".mypy_cache"}
    \/ /\ call.opts.excludePatterns.present
       /\ AnyMatch(call.opts.excludePatterns.items, fullPath)

MatchesFileType(filename) ==
    IF ~call.opts.fileTypes.present \/ call.opts.fileTypes.items = <<>>
    THEN ExtName(filename) \in {".ts", ".tsx", ".js", ".jsx", ".py", ".go", ".rs",
                                ".java", ".json", ".yaml", ".yml", ".md", ".txt"}
    ELSE Contains(call.opts.fileTypes.items, ExtName(filename))

\* findAllFiles: a failing list or stat ends the walk of that directory
RECURSIVE FocusedWalk(_, _), FocusedWalkEntries(_, _, _)
FocusedWalk(dir, depth) ==
    IF depth > FocusedMaxDepth \/ ListFails(dir) THEN <<>>
    ELSE FocusedWalkEntries(dir, 1, depth)

FocusedWalkEntries(dir, i, depth) ==
    IF i > Len(DirEntries(dir)) THEN <<>>
    ELSE LET entry == DirEntries(dir)[i]
             fullPath == Join(dir, entry) IN
         IF FocusedShouldExclude(entry, fullPath) THEN FocusedWalkEntries(dir, i + 1, depth)
         ELSE IF StatFails(fullPath) THEN <<>>
         ELSE IF fullPath \in Dirs
              THEN FocusedWalk(fullPath, depth + 1) \o FocusedWalkEntries(dir, i + 1, depth)
         ELSE (IF MatchesFileType(entry) THEN <<fullPath>> ELSE <<>>)
              \o FocusedWalkEntries(dir, i + 1, depth)

FindAllFiles == FocusedWalk(Root, 0)

\* the weights in tenths
FocusedWeights ==
    [pathScore |-> 20, nameScore |-> 25, typeScore |-> 10, depthScore |-> 5,
     sizeScore |-> 3, recencyScore |-> 2, queryScore |-> 30]

FocusedCriteria ==
    [query |-> call.opts.query, contextDepth |-> RootSegments,
     fileTypes |-> call.opts.fileTypes, includePatterns |-> call.opts.includePatterns,
     excludePatterns |-> call.opts.excludePatterns, threshold |-> 30,
     weights |-> [present |-> TRUE, w |-> FocusedWeights]]

\* file.score *= 1.5, once per matching include pattern
RECURSIVE Boost(_, _, _)
Boost(score, p, patterns) ==
    IF patterns = <<>> THEN score
    ELSE Boost(IF PathMatches(Head(patterns), p) THEN (score * 3) \div 2 ELSE score,
               p, Tail(patterns))

ScoreFilesByFocus(allFiles, now) ==
    Bind(ScoreFiles(allFiles, FocusedCriteria, now), LAMBDA scoredFiles :
    Bind([i \in 1..Len(scoredFiles) |->
            [path |-> scoredFiles[i].path,
             score |-> IF call.opts.includePatterns.present
                       THEN Boost(scoredFiles[i].score, scoredFiles[i].path,
                                  call.opts.includePatterns.items)
                       ELSE scoredFiles[i].score]], LAMBDA boosted :
    Bind(StableSortAsc(boosted, [i \in 1..Len(boosted) |-> 0 - boosted[i].score]),
         LAMBDA sorted : SelectSeq(sorted, LAMBDA f : f.score >= Pts(30)))))

(***************************************************************************)
(* Project analyzer, as far as the strategies use its result.              *)
(***************************************************************************)
AnalyzerMaxDepth == 5

AnalyzerShouldIgnore(name) ==
    name \in {"node_modules", ".git", ".svn", ".hg", "dist", "build", "coverage",
              ".cache", ".next", ".nuxt", ".turbo", "venv", "__pycache__",
              ".pytest_cache", ".mypy_cache"}

\* walkDirectory rethrows every error whose code is not EACCES
RECURSIVE WalkDirectoryThrows(_, _)
WalkDirectoryThrows(dir, depth) ==
    /\ depth <= AnalyzerMaxDepth
    /\ \/ ListFails(dir) /\ fs.fault.code # "EACCES"
       \/ /\ ~ListFails(dir)
          /\ \E i \in 1..Len(DirEntries(dir)) :
                LET entry == DirEntries(dir)[i]
                    fullPath == Join(dir, entry) IN
                /\ ~AnalyzerShouldIgnore(entry)
                /\ \A j \in 1..(i - 1) :
                       \/ AnalyzerShouldIgnore(DirEntries(dir)[j])
                       \/ ~StatFails(Join(dir, DirEntries(dir)[j]))
                /\ \/ StatFails(fullPath) /\ fs.fault.code # "EACCES"
                   \/ /\ ~StatFails(fullPath)
                      /\ fullPath \in Dirs
                      /\ WalkDirectoryThrows(fullPath, depth + 1)

\* analyzeStructure lists the root and stats each of its entries, uncaught
AnalyzeStructureThrows ==
    \/ ListFails(Root)
    \/ \E i \in 1..Len(DirEntries(Root)) : StatFails(<<DirEntries(Root)[i]>>)

AnalyzeProjectThrows == AnalyzeStructureThrows \/ WalkDirectoryThrows(Root, 0)

EntryPointPatterns ==
    << <<"index.js">>, <<"index.ts">>, <<"main.js">>, <<"main.ts">>,
       <<"app.js">>, <<"app.ts">>, <<"server.js">>, <<"server.ts">>,
       <<"src", "index.js">>, <<"src", "index.ts">>, <<"src", "main.js">>,
       <<"src", "main.ts">>, <<"src", "app.js">>, <<"src", "app.ts">>,
       <<"src", "server.js">>, <<"src", "server.ts">> >>

FindEntryPoints == SelectSeq(EntryPointPatterns, LAMBDA q : Exists(q))

\* /\.(json|yaml|yml|toml|ini|conf|config\.(js|ts))$/ on the root's files
IsConfigName(name) == ExtName(name) \in {".json", ".yaml", ".yml", ".toml", ".ini", ".conf"}

\* /^(docs|documentation)$/i on the root's directories
IsDocsDirName(name) == name \in {"docs", "documentation"}

AnalyzeProject ==
    [entryPoints |-> FindEntryPoints,
     configFiles |-> SelectSeq(DirEntries(Root),
                        LAMBDA e : <<e>> \notin Dirs /\ IsConfigName(e)),
     docsDirs    |-> SelectSeq(DirEntries(Root),
                        LAMBDA e : <<e>> \in Dirs /\ IsDocsDirName(e))]

(***************************************************************************)
(* Progressive strategy: helpers.                                          *)
(***************************************************************************)
ProgressiveMaxDepth == 5

\* Map.set in a fresh or existing map: a key keeps its first position
RECURSIVE Dedup(_)
Dedup(s) ==
    IF s = <<>> THEN <<>>
    ELSE LET front == Dedup(SubSeq(s, 1, Len(s) - 1)) IN
         IF Contains(front, s[Len(s)]) THEN front ELSE Append(front, s[Len(s)])

MapSetAll(keys, more) == Dedup(keys \o more)

CorePatterns ==
    << <<"README.md">>, <<"readme.md">>, <<"package.json">>, <<"tsconfig.json">>,
       <<".env.example">>, <<"docker-compose.yml">> >>

\* loadCoreFiles: the keys of the returned map, in insertion order
LoadCoreFiles(entryPoints) ==
    MapSetAll(SelectSeq(entryPoints, LAMBDA q : ~ReadFails(q)),
              SelectSeq(CorePatterns, LAMBDA q : Exists(q) /\ ~ReadFails(q)))

\* priorities.findIndex(p => a.includes(p)), the last place when none is found
ConfigPriority(name) ==
    CASE name = "package.json"  -> 0
      [] name = "tsconfig.json" -> 1
      [] OTHER                  -> 4

ConfigSliceLimit == 10

\* loadConfigFiles: the keys of the returned map, in insertion order
LoadConfigFiles(configFiles) ==
    LET sorted == StableSortAsc(configFiles,
                      [i \in 1..Len(configFiles) |-> ConfigPriority(configFiles[i])])
        first == SubSeq(sorted, 1, Min(Len(sorted), ConfigSliceLimit))
        paths == [i \in 1..Len(first) |-> <<first[i]>>] IN
    Dedup(SelectSeq(paths, LAMBDA q : ~ReadFails(q)))

ProgressiveShouldIgnore(name) ==
    \/ name \in {"node_modules", ".git", ".svn", ".hg", "dist", "build", "coverage",
                 ".cache", ".next", ".nuxt", ".turbo", "venv", "__pycache__",
                 ".pytest_cache", ".mypy_cache", ".DS_Store", "Thumbs.db"}
    \/ StartsWithDot(name)

IsSourceFile(name) ==
    ExtName(name) \in {".ts", ".tsx", ".js", ".jsx", ".py", ".go", ".rs", ".java",
                       ".cs", ".cpp", ".c", ".h", ".rb", ".php", ".swift", ".kt"}

\* findSourceFiles: a failing list or stat ends the walk of that directory
RECURSIVE SourceWalk(_, _), SourceWalkEntries(_, _, _)
SourceWalk(dir, depth) ==
    IF depth > ProgressiveMaxDepth \/ ListFails(dir) THEN <<>>
    ELSE SourceWalkEntries(dir, 1, depth)

SourceWalkEntries(dir, i, depth) ==
    IF i > Len(DirEntries(dir)) THEN <<>>
    ELSE LET entry == DirEntries(dir)[i]
             fullPath == Join(dir, entry) IN
         IF ProgressiveShouldIgnore(entry) THEN SourceWalkEntries(dir, i + 1, depth)
         ELSE IF StatFails(fullPath) THEN <<>>
         ELSE IF fullPath \in Dirs
              THEN SourceWalk(fullPath, depth + 1) \o SourceWalkEntries(dir, i + 1, depth)
         ELSE (IF IsSourceFile(entry) THEN <<fullPath>> ELSE <<>>)
              \o SourceWalkEntries(dir, i + 1, depth)

FindSourceFiles == SourceWalk(Root, 0)

RelevantCriteria ==
    [query |-> call.opts.query, contextDepth |-> RootSegments,
     fileTypes |-> ListOf(<<".ts", ".tsx", ".js", ".jsx", ".py", ".go", ".rs">>),
     includePatterns |-> NoList, excludePatterns |-> NoList, threshold |-> 40,
     weights |-> [present |-> FALSE, w |-> DefaultWeights]]

\* the candidates of loadRelevantFiles, in scoring order
RelevantCandidates(existingFiles, now) ==
    LET unloaded == SelectSeq(FindSourceFiles, LAMBDA q : ~Contains(existingFiles, q))
        scored == ScoreFiles(unloaded, RelevantCriteria, now) IN
    [i \in 1..Len(scored) |-> scored[i].path]

MainDocs == << <<"README.md">>, <<"CONTRIBUTING.md">>, <<"API.md">>, <<"ARCHITECTURE.md">> >>

DocsSliceLimit == 5

\* findDocumentationFiles: entry.toLowerCase().endsWith('.md'); errors give []
FindDocumentationFiles(docsPath) ==
    IF ListFails(docsPath) \/ docsPath \notin Dirs THEN <<>>
    ELSE LET md == SelectSeq(DirEntries(docsPath), LAMBDA e : ExtName(e) = ".md") IN
         [i \in 1..Len(md) |-> Join(docsPath, md[i])]

(***************************************************************************)
(* The inputs of the model.                                                *)
(***************************************************************************)
ShortLen == 3
LongLen == 9

BaseLen == [p \in FilePaths |-> ShortLen]

VaryingFiles == {<<"README.md">>, <<"package.json">>, <<"index.ts">>, <<"src", "auth.ts">>}

\* every file is long in the last choice
LenChoices ==
    {[p \in FilePaths |-> IF p \in long THEN LongLen ELSE ShortLen] :
        long \in SUBSET VaryingFiles}
    \cup {[p \in FilePaths |-> LongLen]}

Occurrences ==
    [p \in FilePaths |->
        [t \in {"auth", "src"} |->
            IF t = "auth" /\ p = <<"src", "auth.ts">> THEN 3 ELSE 0]]

FaultChoices ==
    {[op |-> "list", path |-> d, code |-> c] : d \in Dirs, c \in {"EACCES", "EIO"}}
    \cup {[op |-> "stat", path |-> q, code |-> c] :
            q \in {<<"src">>, <<"docs">>, <<"README.md">>, <<"src", "auth.ts">>},
            c \in {"EACCES", "EIO"}}
    \cup {[op |-> "read", path |-> q, code |-> "EIO"] :
            q \in {<<"README.md">>, <<"index.ts">>, <<"src", "auth.ts">>,
                   <<"docs", "faq.md">>, <<"docs", "guide.md">>}}

FsChoices ==
    {[len |-> l, occ |-> Occurrences, mtime |-> [p \in FilePaths |-> 0],
      fault |-> NoFault, cwdIsRoot |-> c] : l \in LenChoices, c \in BOOLEAN}
    \cup {[len |-> BaseLen, occ |-> Occurrences, mtime |-> [p \in FilePaths |-> 0],
           fault |-> f, cwdIsRoot |-> TRUE] : f \in FaultChoices}

Queries == {Absent, "", "auth"}

PatternChoices == {NoList, ListOf(<<>>), ListOf(<<"*.ts">>)}

OptionChoices ==
    {[maxTokens |-> m, query |-> q, includePatterns |-> ip, excludePatterns |-> NoList,
      fileTypes |-> NoList, maxDepth |-> 0] :
        m \in 0..MaxBudget, q \in Queries, ip \in PatternChoices}

StrategyArgs == {Absent, "", "progressive", "focused", "breadth-first", "bogus"}

DefaultStrategies ==
    [n \in {"progressive", "focused", "breadth-first"} |-> n]

NoCall == [api |-> "none", name |-> Absent, strat |-> "none",
           opts |-> CHOOSE o \in OptionChoices : TRUE]

NoSub == [files |-> <<>>, used |-> 0, budget |-> 0]

NoInfo == [projectInfo |-> FALSE, error |-> "none", scored |-> <<>>,
           relevance |-> <<>>, averageDefined |-> TRUE, averageScore |-> 0]

NoHist == [touched |-> FALSE, analyzed |-> 0, invoked |-> FALSE, evaluated |-> {}]

DefaultCriteria ==
    [query |-> Absent, contextDepth |-> 0, fileTypes |-> NoList, includePatterns |-> NoList,
     excludePatterns |-> NoList, threshold |-> 0,
     weights |-> [present |-> FALSE, w |-> DefaultWeights]]

NoScoring ==
    [phase |-> "idle", paths |-> <<>>, criteria |-> DefaultCriteria, settled |-> <<>>,
     out |-> <<>>, first |-> <<>>, calls |-> 0, inOrder |-> TRUE]

NoChunking ==
    [phase |-> "idle", content |-> <<"">>, chunkSize |-> 0, sections |-> <<>>, i |-> 1,
     currentChunk |-> <<"">>, currentTokens |-> 0, chunks |-> <<>>]

NoOptimizing == [phase |-> "idle", op |-> "none"]

NoSorting == [phase |-> "idle", entries |-> <<>>, out |-> <<>>]

\* the locals of a call that has not begun
NoLocals ==
    [call |-> NoCall, pc |-> "idle", level |-> 0, queue |-> <<>>, files |-> <<>>,
     totalTokens |-> 0, sub |-> NoSub, info |-> NoInfo, hist |-> NoHist]

NoPair ==
    [saved |-> NoLocals, aloneRunning |-> TRUE, aloneSaved |-> TRUE, resets |-> 0,
     ref |-> [call |-> NoCall, pc |-> "idle", files |-> <<>>, totalTokens |-> 0]]

Init ==
    /\ fs \in FsChoices
    /\ strategies = DefaultStrategies
    /\ call = NoCall
    /\ pc = "idle"
    /\ level = 0
    /\ queue = <<>>
    /\ files = <<>>
    /\ totalTokens = 0
    /\ sub = NoSub
    /\ info = NoInfo
    /\ hist = NoHist
    /\ clock = 10
    /\ scoring = NoScoring
    /\ chunking = NoChunking
    /\ optimizing = NoOptimizing
    /\ sorting = NoSorting
    /\ registered = <<>>
    /\ pair = NoPair

(***************************************************************************)
(* ContextAggregator: dispatch.                                            *)
(***************************************************************************)
Fail(error) ==
    /\ pc' = "failed"
    /\ info' = [info EXCEPT !.error = error]

StrategiesGetOrProgressive(name) ==
    IF name \in DOMAIN strategies THEN strategies[name] ELSE strategies["progressive"]

\* this.strategies.get(name): "none" stands for undefined
StrategiesGet(name) == IF name \in DOMAIN strategies THEN strategies[name] ELSE "none"

\* aggregateContext: options.strategy || 'progressive', then the registry lookup
AggregateContext ==
    /\ pc = "idle"
    /\ \E arg \in StrategyArgs, o \in OptionChoices :
         LET strategyName == IF arg \in {Absent, ""} THEN "progressive" ELSE arg IN
         /\ call' = [api |-> "aggregateContext", name |-> arg,
                     strat |-> StrategiesGet(strategyName), opts |-> o]
         /\ IF StrategiesGet(strategyName) = "none"
            THEN Fail("unknown strategy")
            ELSE pc' = "start" /\ info' = info
    /\ UNCHANGED <<fs, strategies, level, queue, files, totalTokens, sub, hist, clock>>
    /\ UNCHANGED <<scoring, chunking, optimizing, sorting, registered, pair>>

\* loadContext: the registry lookup of the name as given
LoadContext ==
    /\ pc = "idle"
    /\ \E arg \in StrategyArgs \ {Absent}, o \in OptionChoices :
         /\ call' = [api |-> "loadContext", name |-> arg, strat |-> StrategiesGet(arg),
                     opts |-> o]
         /\ IF StrategiesGet(arg) = "none"
            THEN Fail("unknown strategy")
            ELSE pc' = "start" /\ info' = info
    /\ UNCHANGED <<fs, strategies, level, queue, files, totalTokens, sub, hist, clock>>
    /\ UNCHANGED <<scoring, chunking, optimizing, sorting, registered, pair>>

(***************************************************************************)
(* Shared pieces of the strategies' admission loops.                       *)
(***************************************************************************)
Items(kind, paths) == [i \in 1..Len(paths) |-> [k |-> kind, p |-> paths[i], score |-> 0]]

Touch(h) == [h EXCEPT !.touched = TRUE]

Evaluated(h, p) == [h EXCEPT !.touched = TRUE, !.evaluated = @ \cup {p}]

\* files.set(path, content); totalTokens += tokens
AdmitMain(p) ==
    /\ files' = MapSetAll(files, <<p>>)
    /\ totalTokens' = totalTokens + Tokens(p)

AdmitSubUncounted(p) == sub' = [sub EXCEPT !.files = MapSetAll(@, <<p>>)]

\* the helper's own files.set(path, content); tokensUsed += tokens
AdmitSub(p) ==
    sub' = [sub EXCEPT !.files = MapSetAll(@, <<p>>), !.used = @ + Tokens(p)]

\* for (const [filePath, content] of helperFiles) { files.set; totalTokens += ... }
MergeSub ==
    /\ files' = MapSetAll(files, sub.files)
    /\ totalTokens' = totalTokens + SumSeq([i \in 1..Len(sub.files) |-> Tokens(sub.files[i])])

(***************************************************************************)
(* BreadthFirstLoadingStrategy.loadContext                                 *)
(***************************************************************************)
BFStart ==
    /\ pc = "start" /\ call.strat = "breadth-first"
    /\ pc' = "bf_level"
    /\ level' = 0
    /\ hist' = [hist EXCEPT !.invoked = TRUE]
    /\ UNCHANGED <<fs, strategies, call, queue, files, totalTokens, sub, info, clock>>
    /\ UNCHANGED <<scoring, chunking, optimizing, sorting, registered, pair>>

\* the head of the level loop: loadFilesAtLevel up to getDirectoriesAtLevel
BFLevel ==
    /\ pc = "bf_level"
    /\ IF level <= BFMaxDepth /\ totalTokens < MaxTokens
       THEN /\ queue' = Items("bfdir", GetDirectoriesAtLevel(level))
            /\ sub' = [files |-> <<>>, used |-> 0, budget |-> MaxTokens - totalTokens]
            /\ hist' = IF level = 0 THEN hist ELSE Touch(hist)
            /\ pc' = "bf_scan"
       ELSE /\ pc' = "bf_finish"
            /\ UNCHANGED <<queue, sub, hist>>
    /\ UNCHANGED <<fs, strategies, call, level, files, totalTokens, info, clock>>
    /\ UNCHANGED <<scoring, chunking, optimizing, sorting, registered, pair>>

\* one turn of loadFilesAtLevel's directory loop or of its entry loop
BFScan ==
    /\ pc = "bf_scan" /\ queue # <<>>
    /\ LET item == Head(queue) IN
       IF sub.used >= sub.budget
       THEN /\ queue' = <<>>
            /\ UNCHANGED <<pc, info, sub, hist>>
       ELSE IF item.k = "bfdir"
       THEN IF ListFails(item.p)
            THEN /\ Fail("io")
                 /\ hist' = Touch(hist)
                 /\ UNCHANGED <<queue, sub>>
            ELSE /\ queue' = Items("bfentry",
                                 LET sorted == SortEntries(DirEntries(item.p)) IN
                                 [i \in 1..Len(sorted) |-> Join(item.p, sorted[i])])
                             \o Tail(queue)
                 /\ hist' = Touch(hist)
                 /\ UNCHANGED <<pc, info, sub>>
       ELSE /\ queue' = Tail(queue)
            /\ UNCHANGED <<pc, info>>
            /\ IF BFShouldExclude(Basename(item.p))
               THEN UNCHANGED <<sub, hist>>
               ELSE IF \/ StatFails(item.p)
                       \/ item.p \notin FilePaths
                       \/ ~BFShouldIncludeFile(Basename(item.p))
               THEN hist' = Touch(hist) /\ sub' = sub
               ELSE /\ hist' = Evaluated(hist, item.p)
                    /\ IF ~ReadFails(item.p) /\ sub.used + Tokens(item.p) <= sub.budget
                       THEN AdmitSub(item.p)
                       ELSE sub' = sub
    /\ UNCHANGED <<fs, strategies, call, level, files, totalTokens, clock>>
    /\ UNCHANGED <<scoring, chunking, optimizing, sorting, registered, pair>>

\* the level's files are put into the result; level++
BFMerge ==
    /\ pc = "bf_scan" /\ queue = <<>>
    /\ MergeSub
    /\ level' = level + 1
    /\ pc' = "bf_level"
    /\ UNCHANGED <<fs, strategies, call, queue, sub, info, hist, clock>>
    /\ UNCHANGED <<scoring, chunking, optimizing, sorting, registered, pair>>

\* buildDirectoryStructure catches every error; then the result is returned
BFFinish ==
    /\ pc = "bf_finish"
    /\ pc' = "loaded"
    /\ hist' = Touch(hist)
    /\ UNCHANGED <<fs, strategies, call, level, queue, files, totalTokens, sub, info, clock>>
    /\ UNCHANGED <<scoring, chunking, optimizing, sorting, registered, pair>>

(***************************************************************************)
(* FocusedLoadingStrategy.loadContext                                      *)
(***************************************************************************)
HasFocusUnchecked(opts) == TRUE

\* the negation of !options.query && !options.includePatterns?.length
HasFocus(opts) ==
    \/ opts.query \notin {Absent, ""}
    \/ opts.includePatterns.present /\ opts.includePatterns.items # <<>>

FocusedStart ==
    /\ pc = "start" /\ call.strat = "focused"
    /\ IF ~HasFocus(call.opts)
       THEN /\ Fail("focused strategy requires either a query or include patterns")
            /\ hist' = [hist EXCEPT !.invoked = TRUE]
            /\ queue' = queue
       ELSE \E scoredFiles \in {ScoreFilesByFocus(FindAllFiles, clock)} :
            /\ queue' = [i \in 1..Len(scoredFiles) |->
                            [k |-> "focus", p |-> scoredFiles[i].path,
                             score |-> scoredFiles[i].score]]
            /\ info' = [info EXCEPT !.scored =
                            [i \in 1..Len(scoredFiles) |-> scoredFiles[i].score]]
            /\ hist' = [hist EXCEPT !.invoked = TRUE, !.touched = TRUE]
            /\ pc' = "focus_scan"
    /\ UNCHANGED <<fs, strategies, call, level, files, totalTokens, sub, clock>>
    /\ UNCHANGED <<scoring, chunking, optimizing, sorting, registered, pair>>

FocusedStep ==
    /\ pc = "focus_scan" /\ queue # <<>>
    /\ LET item == Head(queue) IN
       IF totalTokens >= MaxTokens
       THEN /\ queue' = <<>>
            /\ UNCHANGED <<files, totalTokens, info, hist>>
       ELSE /\ queue' = Tail(queue)
            /\ hist' = Evaluated(hist, item.p)
            /\ IF ~ReadFails(item.p) /\ totalTokens + Tokens(item.p) <= MaxTokens
               THEN /\ AdmitMain(item.p)
                    /\ info' = [info EXCEPT !.relevance =
                                   Append(@, [path |-> item.p, score |-> item.score])]
               ELSE UNCHANGED <<files, totalTokens, info>>
    /\ UNCHANGED <<fs, strategies, call, pc, level, sub, clock>>
    /\ UNCHANGED <<scoring, chunking, optimizing, sorting, registered, pair>>

\* focusSummary.averageScore: scoredFiles.slice(0, files.size).reduce(...) / files.size
FocusedFinish ==
    /\ pc = "focus_scan" /\ queue = <<>>
    /\ info' = [info EXCEPT
                  !.averageDefined = (Len(files) # 0),
                  !.averageScore =
                      IF Len(files) = 0 THEN 0
                      ELSE SumSeq(SubSeq(info.scored, 1, Len(files))) \div Len(files)]
    /\ pc' = "loaded"
    /\ UNCHANGED <<fs, strategies, call, level, queue, files, totalTokens, sub, hist, clock>>
    /\ UNCHANGED <<scoring, chunking, optimizing, sorting, registered, pair>>

(***************************************************************************)
(* ProgressiveLoadingStrategy.loadContext                                  *)
(***************************************************************************)
\* Stage 1, and loadCoreFiles of stage 2
ProgressiveStart ==
    /\ pc = "start" /\ call.strat = "progressive"
    /\ hist' = [hist EXCEPT !.invoked = TRUE, !.touched = TRUE, !.analyzed = @ + 1]
    /\ IF AnalyzeProjectThrows
       THEN /\ Fail("io")
            /\ queue' = queue
       ELSE /\ info' = [info EXCEPT !.projectInfo = TRUE]
            /\ queue' = Items("core", LoadCoreFiles(AnalyzeProject.entryPoints))
            /\ pc' = "core"
    /\ UNCHANGED <<fs, strategies, call, level, files, totalTokens, sub, clock>>
    /\ UNCHANGED <<scoring, chunking, optimizing, sorting, registered, pair>>

\* a turn that passes over a candidate that does not fit
SoftSkipStep(at) ==
    /\ pc = at /\ queue # <<>>
    /\ LET item == Head(queue) IN
       /\ queue' = Tail(queue)
       /\ IF totalTokens + Tokens(item.p) > MaxTokens
          THEN UNCHANGED <<files, totalTokens>>
          ELSE AdmitMain(item.p)
    /\ hist' = Evaluated(hist, Head(queue).p)
    /\ UNCHANGED <<fs, strategies, call, pc, level, sub, info, clock>>
    /\ UNCHANGED <<scoring, chunking, optimizing, sorting, registered, pair>>

\* one turn of the admission loop of stage 2 or of stage 3: break on the first miss
HardStopStep(at) ==
    /\ pc = at /\ queue # <<>>
    /\ LET item == Head(queue) IN
       IF totalTokens + Tokens(item.p) > MaxTokens
       THEN /\ queue' = <<>>
            /\ UNCHANGED <<files, totalTokens>>
       ELSE /\ queue' = Tail(queue)
            /\ AdmitMain(item.p)
    /\ hist' = Evaluated(hist, Head(queue).p)
    /\ UNCHANGED <<fs, strategies, call, pc, level, sub, info, clock>>
    /\ UNCHANGED <<scoring, chunking, optimizing, sorting, registered, pair>>

CoreStep == HardStopStep("core")

\* stage 3 entered whatever the running total is
ConfigStageUngated ==
    /\ pc = "core" /\ queue = <<>>
    /\ queue' = Items("config", LoadConfigFiles(AnalyzeProject.configFiles))
    /\ pc' = "config"
    /\ UNCHANGED <<fs, strategies, call, level, files, totalTokens, sub, info, hist, clock>>
    /\ UNCHANGED <<scoring, chunking, optimizing, sorting, registered, pair>>

\* Stage 3: the gate and loadConfigFiles
ConfigStage ==
    /\ pc = "core" /\ queue = <<>>
    /\ IF 10 * totalTokens < 8 * MaxTokens
       THEN queue' = Items("config", LoadConfigFiles(AnalyzeProject.configFiles))
       ELSE queue' = <<>>
    /\ pc' = "config"
    /\ UNCHANGED <<fs, strategies, call, level, files, totalTokens, sub, info, hist, clock>>
    /\ UNCHANGED <<scoring, chunking, optimizing, sorting, registered, pair>>

ConfigStep == HardStopStep("config")

\* Stage 4: the gate and loadRelevantFiles up to the scoring
RelevantStage ==
    /\ pc = "config" /\ queue = <<>>
    /\ IF call.opts.query \notin {Absent, ""} /\ 10 * totalTokens < 9 * MaxTokens
       THEN /\ queue' = Items("relevant", RelevantCandidates(files, clock))
            /\ sub' = [files |-> <<>>, used |-> 0, budget |-> MaxTokens - totalTokens]
       ELSE /\ queue' = <<>>
            /\ sub' = NoSub
    /\ pc' = "relevant"
    /\ UNCHANGED <<fs, strategies, call, level, files, totalTokens, info, hist, clock>>
    /\ UNCHANGED <<scoring, chunking, optimizing, sorting, registered, pair>>

\* one turn of loadRelevantFiles' loop
RelevantStep ==
    /\ pc = "relevant" /\ queue # <<>>
    /\ LET item == Head(queue) IN
       IF sub.used >= sub.budget
       THEN /\ queue' = <<>>
            /\ UNCHANGED <<sub, hist>>
       ELSE /\ queue' = Tail(queue)
            /\ hist' = Evaluated(hist, item.p)
            /\ IF ~ReadFails(item.p) /\ sub.used + Tokens(item.p) <= sub.budget
               THEN AdmitSub(item.p)
               ELSE sub' = sub
    /\ UNCHANGED <<fs, strategies, call, pc, level, files, totalTokens, info, clock>>
    /\ UNCHANGED <<scoring, chunking, optimizing, sorting, registered, pair>>

\* the candidates of loadDocumentation: the main documents, then up to five
\* files of each docs directory (d numbers the directory)
DocsCandidates(docsDirs) ==
    Items("maindoc", MainDocs)
    \o Flatten([d \in 1..Len(docsDirs) |->
          LET docFiles == FindDocumentationFiles(<<docsDirs[d]>>)
              first == SubSeq(docFiles, 1, Min(Len(docFiles), DocsSliceLimit)) IN
          [i \in 1..Len(first) |-> [k |-> "docfile", p |-> first[i], score |-> d]]])

\* Stage 4's files are put into the result; stage 5: the gate
DocsStage ==
    /\ pc = "relevant" /\ queue = <<>>
    /\ MergeSub
    /\ IF 100 * totalTokens' < 95 * MaxTokens
       THEN /\ queue' = DocsCandidates(AnalyzeProject.docsDirs)
            /\ sub' = [files |-> <<>>, used |-> 0, budget |-> MaxTokens - totalTokens']
       ELSE /\ queue' = <<>>
            /\ sub' = NoSub
    /\ pc' = "docs"
    /\ UNCHANGED <<fs, strategies, call, level, info, hist, clock>>
    /\ UNCHANGED <<scoring, chunking, optimizing, sorting, registered, pair>>

\* one turn of loadDocumentation's loops; a failing read of a docs-directory
\* file ends that directory
DocsStep ==
    /\ pc = "docs" /\ queue # <<>>
    /\ LET item == Head(queue) IN
       IF sub.used >= sub.budget
       THEN /\ queue' = <<>>
            /\ UNCHANGED <<sub, hist>>
       ELSE IF item.k = "maindoc"
       THEN /\ queue' = Tail(queue)
            /\ IF ~Exists(item.p)
               THEN UNCHANGED <<sub, hist>>
               ELSE /\ hist' = Evaluated(hist, item.p)
                    /\ IF ~ReadFails(item.p) /\ sub.used + Tokens(item.p) <= sub.budget
                       THEN AdmitSub(item.p)
                       ELSE sub' = sub
       ELSE /\ hist' = Evaluated(hist, item.p)
            /\ IF ReadFails(item.p)
               THEN /\ queue' = SelectSeq(Tail(queue), LAMBDA x : x.score # item.score)
                    /\ sub' = sub
               ELSE /\ queue' = Tail(queue)
                    /\ IF sub.used + Tokens(item.p) <= sub.budget
                       THEN AdmitSub(item.p)
                       ELSE sub' = sub
    /\ UNCHANGED <<fs, strategies, call, pc, level, files, totalTokens, info, clock>>
    /\ UNCHANGED <<scoring, chunking, optimizing, sorting, registered, pair>>

\* Stage 5's files are put into the result, which is returned
ProgressiveFinish ==
    /\ pc = "docs" /\ queue = <<>>
    /\ MergeSub
    /\ pc' = "loaded"
    /\ UNCHANGED <<fs, strategies, call, level, queue, sub, info, hist, clock>>
    /\ UNCHANGED <<scoring, chunking, optimizing, sorting, registered, pair>>

(***************************************************************************)
(* ContextAggregator.aggregateContext after the strategy has returned      *)
(***************************************************************************)
MetadataNeverHasProjectInfo == FALSE

\* loadedContext.metadata.has('projectInfo')
MetadataHasProjectInfo == info.projectInfo

AggregateFinish ==
    /\ pc = "loaded" /\ call.api = "aggregateContext"
    /\ IF MetadataHasProjectInfo
       THEN pc' = "done" /\ UNCHANGED <<info, hist>>
       ELSE /\ hist' = [hist EXCEPT !.touched = TRUE, !.analyzed = @ + 1]
            /\ IF AnalyzeProjectThrows
               THEN Fail("io")
               ELSE pc' = "done" /\ info' = [info EXCEPT !.projectInfo = TRUE]
    /\ UNCHANGED <<fs, strategies, call, level, queue, files, totalTokens, sub, clock>>
    /\ UNCHANGED <<scoring, chunking, optimizing, sorting, registered, pair>>

Next ==
    \/ AggregateContext
    \/ LoadContext
    \/ BFStart
    \/ BFLevel
    \/ BFScan
    \/ BFMerge
    \/ BFFinish
    \/ FocusedStart
    \/ FocusedStep
    \/ FocusedFinish
    \/ ProgressiveStart
    \/ CoreStep
    \/ ConfigStage
    \/ ConfigStep
    \/ RelevantStage
    \/ RelevantStep
    \/ DocsStage
    \/ DocsStep
    \/ ProgressiveFinish
    \/ AggregateFinish

Spec == Init /\ [][Next]_vars

(***************************************************************************)
(* Properties of the loading strategies and of the dispatch, checked under *)
(* Spec.                                                                   *)
(***************************************************************************)
Dispatched == call.api # "none"

InHelper == pc \in {"bf_scan", "relevant", "docs"}

\* C1: with a positive maxTokens, totalTokens never exceeds maxTokens at any
\* point of a run of any of the three strategies, each admitted file costing
\* ceil(length / 4); neither does it together with what a budgeted helper has
\* admitted so far.
C1_BudgetRespected ==
    (Dispatched /\ call.opts.maxTokens > 0) =>
        /\ totalTokens <= call.opts.maxTokens
        /\ InHelper => totalTokens + sub.used <= call.opts.maxTokens

\* a Progressive run that has filled the budget exactly and refused a candidate
C1_BudgetFilledAndCandidateRefused ==
    /\ pc = "loaded"
    /\ call.strat = "progressive"
    /\ call.opts.maxTokens > 0
    /\ totalTokens = call.opts.maxTokens
    /\ \E p \in hist.evaluated : ~Contains(files, p)

NoFocusGiven ==
    /\ call.opts.query \in {Absent, ""}
    /\ ~call.opts.includePatterns.present \/ call.opts.includePatterns.items = <<>>

\* C4: the Focused strategy called with no query and no include pattern fails
\* with its configuration error; no file-system operation has been performed
\* and the project analyzer has not been invoked.
C4_FocusedWithoutFocusFailsUntouched ==
    (call.strat = "focused" /\ NoFocusGiven /\ pc # "start") =>
        /\ pc = "failed"
        /\ info.error = "focused strategy requires either a query or include patterns"
        /\ ~hist.touched
        /\ hist.analyzed = 0
        /\ files = <<>>

\* the failure reached through aggregateContext
C4_FocusedRejectedThroughAggregator ==
    /\ pc = "failed"
    /\ call.api = "aggregateContext"
    /\ call.strat = "focused"
    /\ NoFocusGiven
    /\ hist.invoked

UnknownNameFailed ==
    /\ pc = "failed"
    /\ info.error = "unknown strategy"
    /\ ~hist.invoked
    /\ ~hist.touched
    /\ hist.analyzed = 0
    /\ strategies = DefaultStrategies

\* C5 as stated: aggregateContext and loadContext called with any strategy name
\* that is not in the registry fail with the unknown-strategy error before any
\* strategy or analyzer is invoked, the registry unchanged.
C5_AnyUnregisteredNameFails ==
    (Dispatched /\ call.name # Absent /\ call.name \notin DOMAIN strategies)
        => UnknownNameFailed

\* C5, amended: the same for loadContext with any unregistered name and for
\* aggregateContext with any non-empty unregistered name (aggregateContext
\* takes an empty name like an absent one and uses 'progressive').
C5_UnregisteredNameFails ==
    (/\ Dispatched
     /\ call.name # Absent
     /\ call.name \notin DOMAIN strategies
     /\ ~(call.api = "aggregateContext" /\ call.name = ""))
        => UnknownNameFailed

\* aggregateContext called with a non-empty unregistered name has failed
C5_UnknownNameRejected ==
    /\ pc = "failed"
    /\ call.api = "aggregateContext"
    /\ call.name = "bogus"
    /\ info.error = "unknown strategy"

IsPrefix(s, t) == Len(s) <= Len(t) /\ SubSeq(t, 1, Len(s)) = s

\* C6: when a list, stat or read of something other than the root fails, a
\* strategy's loadContext does not fail, and Focused's walk still finds every
\* file outside the failed entry's subtree.
C6_FailureBelowRootIsSkipped ==
    (/\ call.api = "loadContext"
     /\ call.strat # "none"
     /\ fs.fault.op # "none"
     /\ fs.fault.path # Root
     /\ ~(call.strat = "focused" /\ NoFocusGiven))
        => /\ pc # "failed"
           /\ (call.strat = "focused" /\ fs.fault.op \in {"list", "stat"}) =>
                 \A p \in FilePaths :
                     (~IsPrefix(fs.fault.path, p) /\ MatchesFileType(Basename(p)))
                         => Contains(FindAllFiles, p)

\* C7: when the root cannot be listed, no strategy returns a LoadedContext.
C7_UnlistableRootIsFatal ==
    (fs.fault.op = "list" /\ fs.fault.path = Root) => pc \notin {"loaded", "done"}

(***************************************************************************)
(* RelevanceScorer.scoreFiles as its caller sees it: the per-file scoring  *)
(* operations are started together and settle in any order; the call       *)
(* returns when all have settled.  The same call is then made once more.   *)
(***************************************************************************)
MaxPaths == 3
MaxClock == 1

ScorePaths == {<<"index.ts">>, <<"README.md">>, <<"src", "auth.ts">>, <<"src", "util.ts">>}

PathLists ==
    {s \in UNION {[1..n -> ScorePaths] : n \in 1..MaxPaths} :
        \A i, j \in DOMAIN s : s[i] = s[j] => i = j}

\* the weights in tenths
LightWeights ==
    [pathScore |-> 1, nameScore |-> 1, typeScore |-> 1, depthScore |-> 1,
     sizeScore |-> 1, recencyScore |-> 1, queryScore |-> 1]

NegativeWeights ==
    [pathScore |-> -10, nameScore |-> -10, typeScore |-> -10, depthScore |-> -10,
     sizeScore |-> -10, recencyScore |-> -10, queryScore |-> -10]

WeightChoices ==
    {[present |-> FALSE, w |-> DefaultWeights], [present |-> TRUE, w |-> LightWeights],
     [present |-> TRUE, w |-> NegativeWeights]}

FilterChoices ==
    {[fileTypes |-> NoList, excludePatterns |-> NoList],
     [fileTypes |-> ListOf(<<".md">>), excludePatterns |-> NoList],
     [fileTypes |-> NoList, excludePatterns |-> ListOf(<<"*.md">>)]}

\* contextDepth: no context path, or one of RootSegments segments
CriteriaChoices ==
    {[query |-> q, contextDepth |-> d, fileTypes |-> f.fileTypes,
      includePatterns |-> NoList, excludePatterns |-> f.excludePatterns,
      threshold |-> t, weights |-> w] :
        q \in {Absent, "auth"}, d \in {0, RootSegments}, f \in FilterChoices,
        t \in {0, 30}, w \in WeightChoices}

ScoreFsChoices ==
    {f \in FsChoices :
        /\ f.len = BaseLen
        /\ f.fault.op = "none" \/ f.fault.path = <<"src", "auth.ts">>}

InitScore ==
    /\ fs \in ScoreFsChoices
    /\ strategies = DefaultStrategies
    /\ call = NoCall
    /\ pc = "idle"
    /\ level = 0
    /\ queue = <<>>
    /\ files = <<>>
    /\ totalTokens = 0
    /\ sub = NoSub
    /\ info = NoInfo
    /\ hist = NoHist
    /\ clock = 0
    /\ scoring = NoScoring
    /\ chunking = NoChunking
    /\ optimizing = NoOptimizing
    /\ sorting = NoSorting
    /\ registered = <<>>
    /\ pair = NoPair

LoaderVars ==
    <<fs, strategies, call, pc, level, queue, files, totalTokens, sub, info, hist>>

\* files.map(file => this.scoreFile(file, criteria)): every operation is started
ScoreFilesCall ==
    /\ scoring.phase = "idle"
    /\ \E paths \in PathLists, criteria \in CriteriaChoices :
         scoring' = [scoring EXCEPT !.phase = "running", !.paths = paths,
                                    !.criteria = criteria, !.calls = 1]
    /\ UNCHANGED <<LoaderVars, clock, chunking, optimizing, sorting, registered, pair>>

\* one of the pending scoreFile operations settles
ScoreFileSettles ==
    /\ scoring.phase = "running"
    /\ \E i \in 1..Len(scoring.paths) :
         /\ \A k \in 1..Len(scoring.settled) : scoring.settled[k].idx # i
         /\ scoring' = [scoring EXCEPT !.settled =
                           Append(@, [idx |-> i,
                                      rel |-> ScoreFile(scoring.paths[i], scoring.criteria,
                                                        clock)])]
    /\ UNCHANGED <<LoaderVars, clock, chunking, optimizing, sorting, registered, pair>>

\* Promise.all: the results in the order of the operations, not of their settling
PromiseAllAsSettled(settled) == [i \in 1..Len(settled) |-> settled[i].rel]

PromiseAll(settled) ==
    [i \in 1..Len(settled) |->
        settled[CHOOSE k \in 1..Len(settled) : settled[k].idx = i].rel]

\* all have settled: sort, filter, return
ScoreFilesReturn ==
    /\ scoring.phase = "running"
    /\ Len(scoring.settled) = Len(scoring.paths)
    /\ scoring' = [scoring EXCEPT
                     !.phase = "returned",
                     !.out = SortAndFilter(PromiseAll(scoring.settled), scoring.criteria),
                     !.inOrder = \A k \in 1..Len(scoring.settled) :
                                     scoring.settled[k].idx = k,
                     !.settled = <<>>]
    /\ UNCHANGED <<LoaderVars, clock, chunking, optimizing, sorting, registered, pair>>

\* the same call once more: identical paths, identical criteria
ScoreFilesAgain ==
    /\ scoring.phase = "returned" /\ scoring.calls = 1
    /\ scoring' = [scoring EXCEPT !.phase = "running", !.first = scoring.out,
                                  !.out = <<>>, !.calls = 2]
    /\ UNCHANGED <<LoaderVars, clock, chunking, optimizing, sorting, registered, pair>>

\* a day passes between the two calls
Tick ==
    /\ scoring.phase = "returned" /\ scoring.calls = 1
    /\ clock < MaxClock
    /\ clock' = clock + 1
    /\ UNCHANGED <<LoaderVars, scoring, chunking, optimizing, sorting, registered, pair>>

NextScore ==
    \/ ScoreFilesCall
    \/ ScoreFileSettles
    \/ ScoreFilesReturn
    \/ ScoreFilesAgain
    \/ Tick

SpecScore == InitScore /\ [][NextScore]_vars

(***************************************************************************)
(* Properties of scoreFiles, checked under SpecScore.                      *)
(***************************************************************************)
ScoreInRange(r) == 0 <= r.score /\ r.score <= Pts(100)

\* C3: every FileRelevance scoreFiles produces or returns has a score between
\* 0 and 100, whatever the path, the criteria and the file system's answers.
C3_ScoresWithinBounds ==
    /\ \A k \in 1..Len(scoring.settled) : ScoreInRange(scoring.settled[k].rel)
    /\ \A i \in 1..Len(scoring.out) : ScoreInRange(scoring.out[i])

\* a returned file whose weighted sum was above 100, scored under a failing stat
C3_ClampedResultReturned ==
    /\ scoring.phase = "returned"
    /\ fs.fault.op = "stat"
    /\ \E i \in 1..Len(scoring.out) :
         /\ scoring.out[i].path = fs.fault.path
         /\ RawScore(scoring.out[i].path, scoring.criteria, scoring.out[i].factors)
               > Pts(100)
         /\ scoring.out[i].score = Pts(100)

\* the position of a path in the input list
InputIndex(p) == CHOOSE i \in 1..Len(scoring.paths) : scoring.paths[i] = p

\* C8: the returned list is in non-increasing order of score, and files of equal
\* score keep their input order, whatever the order in which the per-file
\* operations settled.
C8_SortedAndStable ==
    scoring.phase = "returned" =>
        \A i, j \in 1..Len(scoring.out) :
            i < j =>
                /\ scoring.out[i].score >= scoring.out[j].score
                /\ scoring.out[i].score = scoring.out[j].score
                      => InputIndex(scoring.out[i].path) < InputIndex(scoring.out[j].path)

\* a returned list with a tie and a strict descent whose operations did not
\* settle in input order
C8_TieAfterOutOfOrderSettling ==
    /\ scoring.phase = "returned"
    /\ ~scoring.inOrder
    /\ \E i, j \in 1..Len(scoring.out) :
         i < j /\ scoring.out[i].score = scoring.out[j].score
    /\ \E i, j \in 1..Len(scoring.out) :
         i < j /\ scoring.out[i].score > scoring.out[j].score

PathsAndScores(out) == [i \in 1..Len(out) |-> [path |-> out[i].path, score |-> out[i].score]]

\* C9: the second of two calls with identical paths and criteria, against an
\* unchanged file system, returns the scores and the order of the first,
\* whatever time has passed between them.
C9_SecondCallEqualsFirst ==
    (scoring.phase = "returned" /\ scoring.calls = 2) =>
        PathsAndScores(scoring.out) = PathsAndScores(scoring.first)

(***************************************************************************)
(* ContextOptimizer.chunkContext.  A text is the sequence of its lines     *)
(* (content.split('\n')); the empty text is the one empty line.            *)
(***************************************************************************)
MaxLines == 4
MaxChunkSize == 3

DefaultChunkSize == 2000

\* the line of three backquotes that opens or closes a code block
Fence == "<fence>"

LineChoices == {"# h", "", "ccc", "aaaaa bbbbb", Fence}

Contents == UNION {[1..n -> LineChoices] : n \in 1..MaxLines}

EmptyText == <<"">>

\* a string is truthy when it is not empty
Truthy(text) == text # EmptyText

\* text += (text ? '\n' : '') + line
AppendLine(text, line) == IF Truthy(text) THEN Append(text, line) ELSE <<line>>

RECURSIVE TrimStart(_)
TrimStart(text) ==
    IF Len(text) > 1 /\ Head(text) = "" THEN TrimStart(Tail(text)) ELSE text

RECURSIVE TrimEnd(_)
TrimEnd(text) ==
    IF Len(text) > 1 /\ text[Len(text)] = ""
    THEN TrimEnd(SubSeq(text, 1, Len(text) - 1)) ELSE text

\* String.prototype.trim, the lines themselves having no outer white space
Trim(text) == TrimEnd(TrimStart(text))

\* /^#{1,6}\s/, /^={3,}$/, /^-{3,}$/
IsSectionMarker(line) == line \in {"# h", "---"}

\* the lines the inputs are made of
BaseLines == {"# h", "", "ccc", "aaaaa bbbbb", Fence, "---", "key", "test"}

\* the words of a line (line.split(/[\s\n]+/) without the empty ones): the
\* length of each, and whether isCodeToken holds of it
Words(line) ==
    CASE line = "# h"         -> <<[len |-> 1, code |-> FALSE], [len |-> 1, code |-> FALSE]>>
      [] line = ""            -> <<>>
      [] line = "aaaaa bbbbb" -> <<[len |-> 5, code |-> FALSE], [len |-> 5, code |-> FALSE]>>
      [] line = "test"        -> <<[len |-> 4, code |-> FALSE]>>
      [] line \in {"ccc", Fence, "---", "key"} -> <<[len |-> 3, code |-> FALSE]>>

\* line.substring(0, 100) + '...': every line here is shorter than 50 characters
Ellipsis(line) == line \o "..."

\* `[Code block: ${firstLine.substring(0, 50)}...]`
CodeBlockTag(firstLine) == "[Code block: " \o firstLine \o "...]"

\* `[${language} code]` with the language 'unknown' and no function name
UnknownCodeTag == "[unknown code]"

\* the last word of words made longer by more characters; code tells whether
\* those characters make it a code token
ExtendLast(words, more, code) ==
    IF words = <<>> THEN <<[len |-> more, code |-> code]>>
    ELSE [words EXCEPT ![Len(words)] = [len |-> @.len + more, code |-> @.code \/ code]]

\* the words of a line made by Ellipsis, CodeBlockTag or UnknownCodeTag
DerivedWords(line) ==
    IF line = UnknownCodeTag THEN <<[len |-> 8, code |-> TRUE], [len |-> 5, code |-> TRUE]>>
    ELSE IF \E b \in BaseLines : line = Ellipsis(b)
    THEN ExtendLast(Words(CHOOSE b \in BaseLines : line = Ellipsis(b)), 3, FALSE)
    ELSE <<[len |-> 5, code |-> TRUE], [len |-> 6, code |-> FALSE]>>
         \o ExtendLast(Words(CHOOSE b \in BaseLines : line = CodeBlockTag(b)), 4, TRUE)

\* the cost with the quotients rounded down
WordCostFloored(word) ==
    IF word.code THEN word.len \div 3
    ELSE IF word.len <= 4 THEN 1 ELSE word.len \div 4

\* a code token costs ceil(length / 3), a word of up to four characters 1, a
\* longer word ceil(length / 4)
WordCost(word) ==
    IF word.code THEN (word.len + 2) \div 3
    ELSE IF word.len <= 4 THEN 1 ELSE (word.len + 3) \div 4

\* the cost of the words of a line
WordTokens(line) ==
    CASE line = "# h"         -> 2
      [] line = ""            -> 0
      [] line = "ccc"         -> 1
      [] line = "aaaaa bbbbb" -> 4
      [] line = Fence         -> 1
      [] line \in {"---", "key", "test"} -> 1
      [] OTHER -> SumSeq([i \in 1..Len(DerivedWords(line)) |->
                            WordCost(DerivedWords(line)[i])])

\* the characters of a line among . , ; : ! ? ( ) [ ] { } and the three quotes
PunctuationCount(line) ==
    IF line = Fence THEN 3
    ELSE IF line \in BaseLines THEN 0
    ELSE IF line = UnknownCodeTag THEN 2
    ELSE IF \E b \in BaseLines : line = Ellipsis(b)
    THEN 3 + (IF line = Ellipsis(Fence) THEN 3 ELSE 0)
    ELSE 6 + (IF line = CodeBlockTag(Fence) THEN 3 ELSE 0)

\* the words' tokens plus Math.ceil(punctuationCount * 0.3)
EstimateTokenCount(text) ==
    SumSeq([i \in 1..Len(text) |-> WordTokens(text[i])])
    + (3 * SumSeq([i \in 1..Len(text) |-> PunctuationCount(text[i])]) + 9) \div 10

RECURSIVE SplitFrom(_, _, _, _, _)
SplitFrom(lines, i, currentSection, inCodeBlock, sections) ==
    LET pushed == IF Truthy(Trim(currentSection))
                  THEN Append(sections, Trim(currentSection)) ELSE sections IN
    IF i > Len(lines) THEN pushed
    ELSE LET line == lines[i]
             inCode == IF line = Fence THEN ~inCodeBlock ELSE inCodeBlock IN
         IF ~inCode /\ IsSectionMarker(line)
         THEN SplitFrom(lines, i + 1, <<line>>, inCode, pushed)
         ELSE SplitFrom(lines, i + 1, AppendLine(currentSection, line), inCode, sections)

SplitIntoSections(content) == SplitFrom(content, 1, EmptyText, FALSE, <<>>)

RECURSIVE SplitLargeFrom(_, _, _, _, _, _)
SplitLargeFrom(lines, i, currentChunk, currentTokens, chunks, maxTokens) ==
    IF i > Len(lines)
    THEN IF Truthy(currentChunk) THEN Append(chunks, currentChunk) ELSE chunks
    ELSE LET line == lines[i]
             lineTokens == EstimateTokenCount(<<line>>) IN
         IF currentTokens + lineTokens > maxTokens /\ Truthy(currentChunk)
         THEN SplitLargeFrom(lines, i + 1, <<line>>, lineTokens,
                             Append(chunks, currentChunk), maxTokens)
         ELSE SplitLargeFrom(lines, i + 1, AppendLine(currentChunk, line),
                             currentTokens + lineTokens, chunks, maxTokens)

SplitLargeSection(section, maxTokens) ==
    SplitLargeFrom(section, 1, EmptyText, 0, <<>>, maxTokens)

\* injected counts the lines addChunkOverlap has put before the content
CreateChunk(content, index) ==
    [content |-> content, index |-> index, tokenCount |-> EstimateTokenCount(content),
     injected |-> 0]

\* chunks.push(...texts.map(text => this.createChunk(text, chunkIndex++)))
RECURSIVE PushAll(_, _)
PushAll(chunks, texts) ==
    IF texts = <<>> THEN chunks
    ELSE PushAll(Append(chunks, CreateChunk(Head(texts), Len(chunks))), Tail(texts))

\* currentLines.slice(-overlapLines): the whole array when overlapLines is 0
OverlapOf(currentLines) ==
    LET overlapLines == Min(5, Len(currentLines) \div 10) IN
    IF overlapLines = 0 THEN currentLines
    ELSE SubSeq(currentLines, Len(currentLines) - overlapLines + 1, Len(currentLines))

RECURSIVE OverlapFrom(_, _)
OverlapFrom(chunks, i) ==
    IF i >= Len(chunks) THEN chunks
    ELSE Bind(OverlapOf(chunks[i].content), LAMBDA overlap :
         Bind(overlap \o <<"">> \o chunks[i + 1].content, LAMBDA content :
              OverlapFrom([chunks EXCEPT ![i + 1] =
                              [content |-> content, index |-> @.index,
                               tokenCount |-> EstimateTokenCount(content),
                               injected |-> Len(overlap) + 1]], i + 1)))

AddChunkOverlap(chunks) == OverlapFrom(chunks, 1)

PlainFs ==
    [len |-> BaseLen, occ |-> Occurrences, mtime |-> [p \in FilePaths |-> 0],
     fault |-> NoFault, cwdIsRoot |-> TRUE]

InitChunk ==
    /\ fs = PlainFs
    /\ strategies = DefaultStrategies
    /\ call = NoCall
    /\ pc = "idle"
    /\ level = 0
    /\ queue = <<>>
    /\ files = <<>>
    /\ totalTokens = 0
    /\ sub = NoSub
    /\ info = NoInfo
    /\ hist = NoHist
    /\ clock = 0
    /\ scoring = NoScoring
    /\ chunking = NoChunking
    /\ optimizing = NoOptimizing
    /\ sorting = NoSorting
    /\ registered = <<>>
    /\ pair = NoPair

\* chunkSize = maxChunkSize || 2000; sections = this.splitIntoSections(content)
ChunkContextCall ==
    /\ chunking.phase = "idle"
    /\ \E content \in Contents, maxChunkSize \in 0..MaxChunkSize :
         chunking' = [phase |-> "loop", content |-> content,
                      chunkSize |-> IF maxChunkSize = 0 THEN DefaultChunkSize
                                    ELSE maxChunkSize,
                      sections |-> SplitIntoSections(content), i |-> 1,
                      currentChunk |-> EmptyText, currentTokens |-> 0, chunks |-> <<>>]
    /\ UNCHANGED <<LoaderVars, clock, scoring, optimizing, sorting, registered, pair>>

\* one turn of the loop over the sections
ChunkSection ==
    /\ chunking.phase = "loop"
    /\ chunking.i <= Len(chunking.sections)
    /\ \E section \in {chunking.sections[chunking.i]} :
       \E sectionTokens \in {EstimateTokenCount(section)} :
         IF sectionTokens > chunking.chunkSize
         THEN \E finished \in {IF Truthy(chunking.currentChunk)
                               THEN PushAll(chunking.chunks, <<chunking.currentChunk>>)
                               ELSE chunking.chunks} :
                chunking' = [chunking EXCEPT
                    !.i = @ + 1, !.currentChunk = EmptyText, !.currentTokens = 0,
                    !.chunks = PushAll(finished,
                                       SplitLargeSection(section, chunking.chunkSize))]
         ELSE IF chunking.currentTokens + sectionTokens > chunking.chunkSize
         THEN chunking' = [chunking EXCEPT
                    !.i = @ + 1, !.currentChunk = section,
                    !.currentTokens = sectionTokens,
                    !.chunks = PushAll(@, <<chunking.currentChunk>>)]
         ELSE chunking' = [chunking EXCEPT
                    !.i = @ + 1,
                    !.currentChunk = IF Truthy(@) THEN @ \o <<"">> \o section
                                     ELSE section,
                    !.currentTokens = @ + sectionTokens]
    /\ UNCHANGED <<LoaderVars, clock, scoring, optimizing, sorting, registered, pair>>

\* the final chunk, then addChunkOverlap, then the chunks are returned
ChunkContextReturn ==
    /\ chunking.phase = "loop"
    /\ chunking.i > Len(chunking.sections)
    /\ chunking' = [chunking EXCEPT
          !.phase = "returned",
          !.chunks = AddChunkOverlap(IF Truthy(chunking.currentChunk)
                                     THEN PushAll(@, <<chunking.currentChunk>>)
                                     ELSE @)]
    /\ UNCHANGED <<LoaderVars, clock, scoring, optimizing, sorting, registered, pair>>

NextChunk ==
    \/ ChunkContextCall
    \/ ChunkSection
    \/ ChunkContextReturn

SpecChunk == InitChunk /\ [][NextChunk]_vars

(***************************************************************************)
(* Properties of chunkContext, checked under SpecChunk.                    *)
(***************************************************************************)
\* a chunk's content without the overlap injected before it
WithoutOverlap(chunk) == SubSeq(chunk.content, chunk.injected + 1, Len(chunk.content))

\* the chunks' contents without their overlaps, one after the other
ChunkStream(chunks) == Flatten([i \in 1..Len(chunks) |-> WithoutOverlap(chunks[i])])

\* stream is the sections one after the other in order, each whole, with
\* nothing but empty lines before, between and after them
RECURSIVE Covers(_, _)
Covers(stream, sections) ==
    IF stream = <<>> THEN sections = <<>>
    ELSE IF Head(stream) = "" THEN Covers(Tail(stream), sections)
    ELSE /\ sections # <<>>
         /\ IsPrefix(Head(sections), stream)
         /\ Covers(SubSeq(stream, Len(Head(sections)) + 1, Len(stream)), Tail(sections))

\* C10: the returned chunks, their injected overlaps removed and taken in index
\* order, contain every section of the content exactly once and in order.
C10_ChunksCoverEverySection ==
    chunking.phase = "returned" =>
        Covers(ChunkStream(chunking.chunks), chunking.sections)

(***************************************************************************)
(* ContextOptimizer.optimizeContext and getTokenInfo.  The summarize and   *)
(* selective strategies and getTokenInfo work on sections, so their texts  *)
(* are sequences of lines as in chunkContext; the lines are drawn from     *)
(* SectionLineChoices.                                                     *)
(***************************************************************************)
MaxSectionLines == 4
MaxTarget == 5

OptimizerDefaultMaxTokens == 8000

SectionLineChoices == {"# h", "", "---", "key", "test", "aaaaa bbbbb", Fence}

SectionContents == UNION {[1..n -> SectionLineChoices] : n \in 1..MaxSectionLines}

\* the alternatives of a keyword expression that occur in a line
LineMentions(line) ==
    CASE line = "key"  -> {"key"}
      [] line = "test" -> {"test"}
      [] OTHER         -> {}

\* /word|word|.../i.test(section)
Mentions(section, words) == \E i \in 1..Len(section) : LineMentions(section[i]) \cap words # {}

\* content.includes(three backquotes) || /^\s{4,}/.test(content)
IsCodeBlock(section) == Contains(section, Fence)

\* /^(\s*\/\/|\s*\/\*|\s*#)/.test(content)
IsComment(section) == Head(section) = "# h"

\* /^(\s*\*\s|#{1,6}\s|>\s)/.test(content)
IsDocumentation(section) == Head(section) = "# h"

CalculateSectionImportance(section) ==
    (IF Head(section) = "# h" THEN 10 ELSE 0)
    + (IF IsCodeBlock(section) THEN 8 ELSE 0)
    + (IF Mentions(section, {"export interface", "export class", "export function",
                             "export const"}) THEN 7 ELSE 0)
    + (IF Mentions(section, {"error", "exception", "throw", "catch"}) THEN 5 ELSE 0)
    + (IF IsDocumentation(section) THEN 3 ELSE 0)
    - (IF EstimateTokenCount(section) > 500 THEN 2 ELSE 0)

CalculateRelevanceScore(section) ==
    LET score == CalculateSectionImportance(section)
                 + (IF Mentions(section, {"main", "primary", "core", "key"}) THEN 5 ELSE 0)
                 + (IF Mentions(section, {"public", "export", "api"}) THEN 4 ELSE 0)
                 - (IF Mentions(section, {"test", "spec", "mock"}) THEN 3 ELSE 0)
                 - (IF Mentions(section, {"example", "sample", "demo"}) THEN 2 ELSE 0) IN
    IF score < 0 THEN 0 ELSE score

\* result += (result ? '\n\n' : '') + text, the result starting as ''
AppendBlock(result, text) == IF Truthy(result) THEN result \o <<"">> \o text ELSE text

\* maxTokens || this.DEFAULT_MAX_TOKENS
TargetTokens(maxTokens) == IF maxTokens = 0 THEN OptimizerDefaultMaxTokens ELSE maxTokens

\* sections.map(...) and scored.sort((a, b) => b.score - a.score); at is the
\* section's place in the content
ScoredSections(content) ==
    Bind(SplitIntoSections(content), LAMBDA sections :
         StableSortAsc([i \in 1..Len(sections) |->
                           [content |-> sections[i],
                            score |-> CalculateRelevanceScore(sections[i]),
                            tokens |-> EstimateTokenCount(sections[i]), at |-> i]],
                       [i \in 1..Len(sections) |-> 0 - CalculateRelevanceScore(sections[i])]))

SelectiveFitsUnchecked(currentTokens, tokens, maxTokens) == TRUE

\* the negation of currentTokens + tokens > maxTokens
SelectiveFits(currentTokens, tokens, maxTokens) == currentTokens + tokens <= maxTokens

\* the OptimizationResult; reduction is the fraction num / den, in percent
OptimizationResult(content, optimizedContent, originalTokens, finalTokens, strategy) ==
    [originalContent |-> content, optimizedContent |-> optimizedContent,
     originalTokens |-> originalTokens, optimizedTokens |-> finalTokens,
     reduction |-> IF originalTokens - finalTokens > 0
                   THEN [num |-> (originalTokens - finalTokens) * 100, den |-> originalTokens]
                   ELSE [num |-> 0, den |-> 1],
     strategy |-> strategy]

\* no result yet
NoResult == [strategy |-> "none"]

InitOptimize == InitChunk

OtherVars == <<LoaderVars, clock, scoring, chunking, sorting, registered, pair>>

\* optimizeContext(content, 'selective', maxTokens) up to the loop of
\* selectiveOptimization
SelectiveCall ==
    /\ optimizing.phase = "idle"
    /\ \E content \in SectionContents, maxTokens \in 0..MaxTarget :
         optimizing' = [phase |-> "loop", op |-> "selective", content |-> content,
                        maxTokens |-> TargetTokens(maxTokens),
                        originalTokens |-> EstimateTokenCount(content),
                        scored |-> ScoredSections(content), i |-> 1,
                        result |-> EmptyText, currentTokens |-> 0, log |-> <<>>,
                        out |-> NoResult]
    /\ UNCHANGED OtherVars

\* one turn of the loop: a section that does not fit is passed over
SelectiveStep ==
    /\ optimizing.phase = "loop" /\ optimizing.op = "selective"
    /\ optimizing.i <= Len(optimizing.scored)
    /\ \E s \in {optimizing.scored[optimizing.i]} :
       \E fits \in {SelectiveFits(optimizing.currentTokens, s.tokens, optimizing.maxTokens)} :
         optimizing' = [optimizing EXCEPT
            !.i = @ + 1,
            !.result = IF fits THEN AppendBlock(@, s.content) ELSE @,
            !.currentTokens = IF fits THEN @ + s.tokens ELSE @,
            !.log = Append(@, [before |-> optimizing.currentTokens, included |-> fits])]
    /\ UNCHANGED OtherVars

\* the loop is over: the result of optimizeContext
SelectiveReturn ==
    /\ optimizing.phase = "loop" /\ optimizing.op = "selective"
    /\ optimizing.i > Len(optimizing.scored)
    /\ optimizing' = [optimizing EXCEPT
          !.phase = "returned",
          !.out = OptimizationResult(optimizing.content, optimizing.result,
                                     optimizing.originalTokens,
                                     EstimateTokenCount(optimizing.result), "selective")]
    /\ UNCHANGED OtherVars

\* section.split('\n').filter(line => line.trim())
NonBlankLines(section) == SelectSeq(section, LAMBDA line : line # "")

\* summarizeSection(section): the tag of a code block, else the section
\* markers and the first three lines
SummarizeSection(section) ==
    IF IsCodeBlock(section) THEN <<UnknownCodeTag>>
    ELSE LET lines == NonBlankLines(section) IN
         SelectSeq([i \in 1..Len(lines) |-> IF IsSectionMarker(lines[i]) \/ i <= 3
                                           THEN lines[i] ELSE ""],
                   LAMBDA line : line # "")

\* summarizeSection(section, true)
ShorterSummary(section) ==
    LET lines == NonBlankLines(section)
        plain == SelectSeq(lines, LAMBDA line : line # Fence) IN
    IF IsCodeBlock(section)
    THEN <<CodeBlockTag(IF plain = <<>> THEN "" ELSE Head(plain))>>
    ELSE <<Ellipsis(Head(lines))>>

PrioritizeSectionsUnsorted(sections) == sections

\* sections.sort((a, b) => importance(b) - importance(a))
PrioritizeSections(sections) ==
    StableSortAsc(sections,
                  [i \in 1..Len(sections) |-> 0 - CalculateSectionImportance(sections[i])])

ShorterFitsUnchecked(currentTokens, shorterTokens, maxTokens) == TRUE

\* currentTokens + shorterTokens <= maxTokens
ShorterFits(currentTokens, shorterTokens, maxTokens) ==
    currentTokens + shorterTokens <= maxTokens

\* optimizeContext(content, 'summarize', maxTokens) up to the loop of
\* summarizeContent
SummarizeCall ==
    /\ optimizing.phase = "idle"
    /\ \E content \in SectionContents, maxTokens \in 0..MaxTarget :
         optimizing' = [phase |-> "loop", op |-> "summarize", content |-> content,
                        given |-> maxTokens, maxTokens |-> TargetTokens(maxTokens),
                        originalTokens |-> EstimateTokenCount(content),
                        sections |-> PrioritizeSections(SplitIntoSections(content)),
                        i |-> 1, result |-> EmptyText, currentTokens |-> 0,
                        shortened |-> FALSE, out |-> NoResult]
    /\ UNCHANGED OtherVars

\* one turn of the loop: a summary that does not fit is replaced by the
\* shorter one if that fits, and the loop is left
SummarizeStep ==
    /\ optimizing.phase = "loop" /\ optimizing.op = "summarize"
    /\ optimizing.i <= Len(optimizing.sections)
    /\ \E section \in {optimizing.sections[optimizing.i]} :
       \E summary \in {SummarizeSection(section)}, shorter \in {ShorterSummary(section)} :
       \E summaryTokens \in {EstimateTokenCount(summary)},
          shorterTokens \in {EstimateTokenCount(shorter)} :
         IF optimizing.currentTokens + summaryTokens > optimizing.maxTokens
         THEN IF ShorterFits(optimizing.currentTokens, shorterTokens, optimizing.maxTokens)
              THEN optimizing' = [optimizing EXCEPT
                      !.i = Len(optimizing.sections) + 1,
                      !.result = AppendBlock(@, shorter),
                      !.currentTokens = @ + shorterTokens,
                      !.shortened = TRUE]
              ELSE optimizing' = [optimizing EXCEPT !.i = Len(optimizing.sections) + 1]
         ELSE optimizing' = [optimizing EXCEPT
                 !.i = @ + 1,
                 !.result = AppendBlock(@, summary),
                 !.currentTokens = @ + summaryTokens]
    /\ UNCHANGED OtherVars

\* the loop is over: the result of optimizeContext
SummarizeReturn ==
    /\ optimizing.phase = "loop" /\ optimizing.op = "summarize"
    /\ optimizing.i > Len(optimizing.sections)
    /\ optimizing' = [optimizing EXCEPT
          !.phase = "returned",
          !.out = OptimizationResult(optimizing.content, optimizing.result,
                                     optimizing.originalTokens,
                                     EstimateTokenCount(optimizing.result), "summarize")]
    /\ UNCHANGED OtherVars

(***************************************************************************)
(* estimateTokenCount and the compress strategy read single characters, so *)
(* their contents are sequences of characters.                             *)
(***************************************************************************)
MaxChars == 5
MaxBlockLines == 20
MaxCommentBody == 197

NL == "\n"
TAB == "\t"
BackQuote == "<backquote>"
DoubleQuote == "<doublequote>"

\* /\s/
IsSpace(c) == c \in {" ", TAB, NL}

\* the characters of /[_${}()[\]<>]/
IsCodeChar(c) == c \in {"_", "$", "{", "}", "(", ")", "[", "]", "<", ">"}

\* the characters of /[A-Z_]/ that occur in the inputs
IsUpperOrUnderscore(c) == c \in {"A", "B", "_"}

\* the characters of /[.,;:!?()[\]{}"'`]/
IsPunctuation(c) ==
    c \in {".", ",", ";", ":", "!", "?", "(", ")", "[", "]", "{", "}",
           DoubleQuote, "'", BackQuote}

\* the indices of chars that satisfy Keep, ascending
IndicesWhere(chars, Keep(_, _)) ==
    SelectSeq([i \in 1..Len(chars) |-> i], LAMBDA i : Keep(chars, i))

\* a word begins at i: a character that is not white space, after white space
\* or at the beginning
WordBeginsAt(chars, i) == ~IsSpace(chars[i]) /\ (i = 1 \/ IsSpace(chars[i - 1]))

\* the word that begins at i
WordAt(chars, i) ==
    SubSeq(chars, i,
           CHOOSE j \in i..Len(chars) :
               /\ \A k \in i..j : ~IsSpace(chars[k])
               /\ j = Len(chars) \/ IsSpace(chars[j + 1]))

\* content.split(/[\s\n]+/) without the empty strings
WordsOf(chars) ==
    Bind(chars, LAMBDA cs :
         Bind(IndicesWhere(cs, WordBeginsAt), LAMBDA begins :
              [w \in 1..Len(begins) |-> WordAt(cs, begins[w])]))

\* /[_${}()[\]<>]/.test(word) || /^[A-Z_]+$/.test(word)
IsCodeToken(word) ==
    \/ \E i \in 1..Len(word) : IsCodeChar(word[i])
    \/ \A i \in 1..Len(word) : IsUpperOrUnderscore(word[i])

PunctuationAt(chars, i) == IsPunctuation(chars[i])

\* estimateTokenCount on the characters of the content
EstimateTokenCountChars(chars) ==
    Bind(WordsOf(chars), LAMBDA words :
         SumSeq([w \in 1..Len(words) |->
                    WordCost([len |-> Len(words[w]), code |-> IsCodeToken(words[w])])])
         + (3 * Len(IndicesWhere(chars, PunctuationAt)) + 9) \div 10)

\* a newline that follows two newlines
ThirdNewline(chars, i) == i > 2 /\ chars[i] = NL /\ chars[i - 1] = NL /\ chars[i - 2] = NL

KeptNewline(chars, i) == ~ThirdNewline(chars, i)

\* compressed.replace(/\n{3,}/g, '\n\n')
CollapseNewlines(chars) ==
    Bind(chars, LAMBDA cs :
         Bind(IndicesWhere(cs, KeptNewline), LAMBDA kept :
              [k \in 1..Len(kept) |-> cs[kept[k]]]))

IsBlank(c) == c \in {" ", TAB}

\* not a space or tab that follows a space or tab
FirstOfBlankRun(chars, i) == ~(IsBlank(chars[i]) /\ i > 1 /\ IsBlank(chars[i - 1]))

\* compressed.replace(/[ \t]+/g, ' ')
CollapseBlanks(chars) ==
    Bind(chars, LAMBDA cs :
         Bind(IndicesWhere(cs, FirstOfBlankRun), LAMBDA kept :
              [k \in 1..Len(kept) |-> IF IsBlank(cs[kept[k]]) THEN " " ELSE cs[kept[k]]]))

NewlineAt(chars, i) == chars[i] = NL

\* text.split('\n')
SplitLines(chars) ==
    Bind(chars, LAMBDA cs :
         Bind(<<0>> \o IndicesWhere(cs, NewlineAt) \o <<Len(cs) + 1>>, LAMBDA cuts :
              [k \in 1..(Len(cuts) - 1) |-> SubSeq(cs, cuts[k] + 1, cuts[k + 1] - 1)]))

\* lines.join('\n')
JoinLines(lines) ==
    Flatten([k \in 1..Len(lines) |-> IF k = 1 THEN lines[k] ELSE <<NL>> \o lines[k]])

\* Array.from(new Set(lines)).join('\n')
UniqueLines(chars) == JoinLines(Dedup(SplitLines(chars)))

TruncatedMarker ==
    <<"/", "/", " ", ".", ".", ".", " ", "t", "r", "u", "n", "c", "a", "t", "e", "d",
      " ", ".", ".", ".">>

CommentPlaceholder ==
    <<"/", "*", " ", ".", ".", ".", " ", "d", "e", "t", "a", "i", "l", "e", "d", " ",
      "c", "o", "m", "m", "e", "n", "t", " ", "r", "e", "m", "o", "v", "e", "d", " ",
      ".", ".", ".", " ", "*", "/">>

\* the least index from on at which pattern occurs in chars, 0 when there is none
IndexOf(chars, pattern, from) ==
    LET at == {i \in from..(Len(chars) - Len(pattern) + 1) :
                  SubSeq(chars, i, i + Len(pattern) - 1) = pattern} IN
    IF at = {} THEN 0 ELSE CHOOSE i \in at : \A j \in at : i <= j

\* a code block of more than 20 lines keeps its first 10 and its last 5
CompressCodeBlock(match) ==
    Bind(SplitLines(match), LAMBDA lines :
         IF Len(lines) > 20
         THEN JoinLines(SubSeq(lines, 1, 10)) \o <<NL>> \o TruncatedMarker \o <<NL>>
              \o JoinLines(SubSeq(lines, Len(lines) - 4, Len(lines)))
         ELSE match)

ThreeBackQuotes == <<BackQuote, BackQuote, BackQuote>>

\* a comment of more than 200 characters is replaced
CompressComment(match) == IF Len(match) > 200 THEN CommentPlaceholder ELSE match

\* text.replace(/<three backquotes>[\s\S]*?<three backquotes>/g, ...): the
\* matches from left to right, each ending at the first close after its open
RECURSIVE ReplaceCodeBlocks(_, _)
ReplaceCodeBlocks(chars, from) ==
    Bind(IndexOf(chars, ThreeBackQuotes, from), LAMBDA o :
         IF o = 0 THEN SubSeq(chars, from, Len(chars))
         ELSE Bind(IndexOf(chars, ThreeBackQuotes, o + 3), LAMBDA c :
                   IF c = 0 THEN SubSeq(chars, from, Len(chars))
                   ELSE SubSeq(chars, from, o - 1)
                        \o CompressCodeBlock(SubSeq(chars, o, c + 2))
                        \o ReplaceCodeBlocks(chars, c + 3)))

\* text.replace(/\/\*[\s\S]*?\*\//g, ...)
RECURSIVE ReplaceComments(_, _)
ReplaceComments(chars, from) ==
    Bind(IndexOf(chars, <<"/", "*">>, from), LAMBDA o :
         IF o = 0 THEN SubSeq(chars, from, Len(chars))
         ELSE Bind(IndexOf(chars, <<"*", "/">>, o + 2), LAMBDA c :
                   IF c = 0 THEN SubSeq(chars, from, Len(chars))
                   ELSE SubSeq(chars, from, o - 1)
                        \o CompressComment(SubSeq(chars, o, c + 1))
                        \o ReplaceComments(chars, c + 2)))

\* compressContent
CompressContent(content) ==
    Bind(UniqueLines(CollapseBlanks(CollapseNewlines(content))), LAMBDA unique :
         Bind(ReplaceCodeBlocks(unique, 1), LAMBDA blocks : ReplaceComments(blocks, 1)))

CharChoices == {"a", "b", " ", TAB, NL}

Letters == <<"a", "b", "c", "d", "e", "f", "g", "h", "i", "j", "k", "l", "m", "n", "o",
             "p", "q", "r", "s", "t", "u", "v", "w", "x", "y", "z">>

\* a line with two spaces, then a fenced block of n one-letter lines
BlockInput(n) ==
    <<"x", " ", " ", "y", NL>> \o ThreeBackQuotes \o <<"t", "s", NL>>
    \o Flatten([k \in 1..n |-> <<Letters[k], NL>>]) \o ThreeBackQuotes

\* a line with two spaces, then a comment with a body of n characters
CommentInput(n) ==
    <<"x", " ", " ", "y", NL, "/", "*">> \o [k \in 1..n |-> "c"] \o <<"*", "/">>

CompressInputs ==
    UNION {[1..n -> CharChoices] : n \in 0..MaxChars}
    \cup {BlockInput(n) : n \in (MaxBlockLines - 3)..MaxBlockLines}
    \cup {CommentInput(n) : n \in (MaxCommentBody - 1)..MaxCommentBody}

\* optimizeContext(content, 'compress')
CompressCall ==
    /\ optimizing.phase = "idle"
    /\ \E content \in CompressInputs :
       \E compressed \in {CompressContent(content)} :
         optimizing' = [phase |-> "returned", op |-> "compress", content |-> content,
                        out |-> OptimizationResult(content, compressed,
                                                   EstimateTokenCountChars(content),
                                                   EstimateTokenCountChars(compressed),
                                                   "compress")]
    /\ UNCHANGED OtherVars

EstimateCharChoices == {"a", "A", "_", ".", " ", NL}

EstimateInputs == UNION {[1..n -> EstimateCharChoices] : n \in 0..MaxChars}

\* estimateTokenCount(content)
EstimateTokenCountCall ==
    /\ optimizing.phase = "idle"
    /\ \E content \in EstimateInputs :
         optimizing' = [phase |-> "returned", op |-> "estimateTokenCount",
                        content |-> content, out |-> EstimateTokenCountChars(content)]
    /\ UNCHANGED OtherVars

(***************************************************************************)
(* ContextOptimizer.getTokenInfo                                           *)
(***************************************************************************)
NaN == [kind |-> "NaN", num |-> 0, den |-> 1]

Infinity == [kind |-> "Infinity", num |-> 0, den |-> 1]

\* (value / tokens) * 100 as a JavaScript number: 0 / 0 is NaN, a positive
\* value over 0 is Infinity; a finite result is kept as a fraction
Percentage(value, tokens) ==
    IF tokens = 0 THEN IF value = 0 THEN NaN ELSE Infinity
    ELSE [kind |-> "number", num |-> value * 100, den |-> tokens]

Categories == {"code", "documentation", "comments", "whitespace", "other"}

\* the category the loop of getTokenInfo adds a section's tokens to
CategoryOf(section) ==
    IF IsCodeBlock(section) THEN "code"
    ELSE IF IsComment(section) THEN "comments"
    ELSE IF IsDocumentation(section) THEN "documentation"
    ELSE IF \A i \in 1..Len(section) : section[i] = "" THEN "whitespace"
    ELSE "other"

Distribution(sections) ==
    [k \in Categories |->
        SumSeq([i \in 1..Len(sections) |->
                   IF CategoryOf(sections[i]) = k
                   THEN EstimateTokenCount(sections[i]) ELSE 0])]

\* getTokenInfo(content): totalTokens, breakdown and withinLimit
GetTokenInfo(content) ==
    [totalTokens |-> EstimateTokenCount(content),
     breakdown |-> [k \in Categories |->
                       Percentage(Distribution(SplitIntoSections(content))[k],
                                  EstimateTokenCount(content))],
     withinLimit |-> EstimateTokenCount(content) <= OptimizerDefaultMaxTokens]

GetTokenInfoCall ==
    /\ optimizing.phase = "idle"
    /\ \E content \in SectionContents :
         optimizing' = [phase |-> "returned", op |-> "getTokenInfo",
                        content |-> content, out |-> GetTokenInfo(content)]
    /\ UNCHANGED OtherVars

NextOptimize ==
    \/ SelectiveCall
    \/ SelectiveStep
    \/ SelectiveReturn
    \/ SummarizeCall
    \/ SummarizeStep
    \/ SummarizeReturn
    \/ CompressCall
    \/ EstimateTokenCountCall
    \/ GetTokenInfoCall

SpecOptimize == InitOptimize /\ [][NextOptimize]_vars

(***************************************************************************)
(* Properties of optimizeContext and getTokenInfo, checked under           *)
(* SpecOptimize.                                                           *)
(***************************************************************************)
\* the token costs of the sections the selective loop has included so far
IncludedCosts ==
    [k \in 1..Len(optimizing.log) |->
        IF optimizing.log[k].included THEN optimizing.scored[k].tokens ELSE 0]

\* C11: selective optimization considers the sections in non-increasing order of
\* relevance score; the k-th considered is included exactly when its cost plus
\* the cost of those included before it is within the budget; every section is
\* considered, whatever was rejected before it; the included costs never sum to
\* more than the budget.
C11_SelectiveAdmission ==
    optimizing.op = "selective" =>
        /\ \A i, j \in 1..Len(optimizing.scored) :
               i < j => optimizing.scored[i].score >= optimizing.scored[j].score
        /\ \A k \in 1..Len(optimizing.log) :
               /\ optimizing.log[k].before = SumSeq(SubSeq(IncludedCosts, 1, k - 1))
               /\ optimizing.log[k].included <=>
                      optimizing.log[k].before + optimizing.scored[k].tokens
                          <= optimizing.maxTokens
        /\ SumSeq(IncludedCosts) <= optimizing.maxTokens
        /\ optimizing.currentTokens = SumSeq(IncludedCosts)
        /\ optimizing.phase = "returned" => Len(optimizing.log) = Len(optimizing.scored)

\* a returned selection that includes a section, passes over the next one and
\* includes a later section of lower score
C11_SectionPassedOverLaterIncluded ==
    /\ optimizing.op = "selective"
    /\ optimizing.phase = "returned"
    /\ \E i, j, k \in 1..Len(optimizing.log) :
         /\ i < j /\ j < k
         /\ optimizing.log[i].included
         /\ ~optimizing.log[j].included
         /\ optimizing.log[k].included
         /\ optimizing.scored[i].score > optimizing.scored[k].score

\* C12: optimizeContext(content, 'summarize', maxTokens) with a positive
\* maxTokens returns optimizedTokens, the estimate of the joined summaries with
\* their separators, of at most maxTokens, and the input as originalContent.
C12_SummaryWithinBudget ==
    (/\ optimizing.op = "summarize"
     /\ optimizing.phase = "returned"
     /\ optimizing.given > 0)
        => /\ optimizing.out.optimizedTokens <= optimizing.given
           /\ optimizing.out.optimizedTokens = EstimateTokenCount(optimizing.out.optimizedContent)
           /\ optimizing.out.originalContent = optimizing.content

\* a returned summary of a summarized section followed by the shorter form of
\* the section that did not fit
C12_ShorterFormClosedTheSummary ==
    /\ optimizing.op = "summarize"
    /\ optimizing.phase = "returned"
    /\ optimizing.given > 0
    /\ optimizing.shortened
    /\ Contains(optimizing.out.optimizedContent, "")
    /\ optimizing.out.optimizedTokens = optimizing.given

\* the longest run of characters satisfying Is in chars is at most n
RunsAtMost(chars, Is(_), n) ==
    \A i \in 1..(Len(chars) - n) : \E k \in i..(i + n) : ~Is(chars[k])

IsNewline(c) == c = NL

IsSpaceChar(c) == c = " "

HasWhiteSpaceRun(chars) == ~RunsAtMost(chars, IsNewline, 2) \/ ~RunsAtMost(chars, IsBlank, 1)

\* C13: for an input with a run of three or more newlines or of two or more
\* spaces or tabs, compress returns an output that is strictly shorter, has no
\* run of more than two newlines and no run of two or more spaces.
C13_CompressShortens ==
    (/\ optimizing.op = "compress"
     /\ optimizing.phase = "returned"
     /\ HasWhiteSpaceRun(optimizing.content))
        => /\ Len(optimizing.out.optimizedContent) < Len(optimizing.content)
           /\ RunsAtMost(optimizing.out.optimizedContent, IsNewline, 2)
           /\ RunsAtMost(optimizing.out.optimizedContent, IsSpaceChar, 1)

\* C13 without the length: no run of more than two newlines and no run of two
\* or more spaces is left.
C13_NoRunsLeft ==
    (/\ optimizing.op = "compress"
     /\ optimizing.phase = "returned"
     /\ HasWhiteSpaceRun(optimizing.content))
        => /\ RunsAtMost(optimizing.out.optimizedContent, IsNewline, 2)
           /\ RunsAtMost(optimizing.out.optimizedContent, IsSpaceChar, 1)

NonSpaceAt(chars, i) == ~IsSpace(chars[i])

\* C14 as stated: the estimate of the empty content is 0, and the estimate of a
\* content with a character that is not white space is greater than 0 and
\* less than the number of its characters.
C14_EstimateBelowLength ==
    (optimizing.op = "estimateTokenCount" /\ optimizing.phase = "returned") =>
        /\ optimizing.content = <<>> => optimizing.out = 0
        /\ IndicesWhere(optimizing.content, NonSpaceAt) # <<>> =>
               /\ optimizing.out > 0
               /\ optimizing.out < Len(optimizing.content)

\* C14, amended: the estimate of the empty content is 0, and the estimate of a
\* content with a character that is not white space is greater than 0 and at
\* most the number of its characters that are not white space plus
\* ceil(0.3 x the number of its punctuation characters).
C14_EstimateBounded ==
    (optimizing.op = "estimateTokenCount" /\ optimizing.phase = "returned") =>
        /\ optimizing.content = <<>> => optimizing.out = 0
        /\ IndicesWhere(optimizing.content, NonSpaceAt) # <<>> =>
               /\ optimizing.out > 0
               /\ optimizing.out <=
                      Len(IndicesWhere(optimizing.content, NonSpaceAt))
                      + (3 * Len(IndicesWhere(optimizing.content, PunctuationAt)) + 9) \div 10

\* an estimate that is not less than the number of characters of a content of
\* several characters
C14_EstimateReachesLength ==
    /\ optimizing.op = "estimateTokenCount"
    /\ optimizing.phase = "returned"
    /\ Len(optimizing.content) >= 2
    /\ IndicesWhere(optimizing.content, NonSpaceAt) # <<>>
    /\ optimizing.out >= Len(optimizing.content)

(***************************************************************************)
(* ContextAggregator: the registry of strategies.                          *)
(***************************************************************************)
MaxRegistrations == 2

\* the names registerStrategy is called with: a new one, the empty one, a built-in one
RegisteredNames == {"bogus", "", "focused"}

\* strategy objects that are not the built-in ones
CustomStrategies == {"customA", "customB"}

StrategyObjects == CustomStrategies \cup {"focused"}

StrategiesSetIfAbsent(name, strategy) ==
    [n \in DOMAIN strategies \cup {name} |->
        IF n \in DOMAIN strategies THEN strategies[n] ELSE strategy]

\* this.strategies.set(name, strategy)
StrategiesSet(name, strategy) ==
    [n \in DOMAIN strategies \cup {name} |-> IF n = name THEN strategy ELSE strategies[n]]

\* getStrategies(): the keys of the map
GetStrategies == DOMAIN strategies

\* registerStrategy(name, strategy), called while no call is in progress
RegisterStrategy ==
    /\ pc = "idle"
    /\ Len(registered) < MaxRegistrations
    /\ \E name \in RegisteredNames, strategy \in StrategyObjects :
         /\ strategies' = StrategiesSet(name, strategy)
         /\ registered' = Append(registered, [name |-> name, strategy |-> strategy])
    /\ UNCHANGED <<fs, call, pc, level, queue, files, totalTokens, sub, info, hist, clock>>
    /\ UNCHANGED <<scoring, chunking, optimizing, sorting, pair>>

\* loadContext of a strategy object that is not built in: it resolves with an
\* empty LoadedContext
CustomLoadContext ==
    /\ pc = "start" /\ call.strat \in CustomStrategies
    /\ pc' = "loaded"
    /\ UNCHANGED <<fs, strategies, call, level, queue, files, totalTokens, sub, info, hist>>
    /\ UNCHANGED <<clock, scoring, chunking, optimizing, sorting, registered, pair>>

InitRegistry == InitChunk

NextRegistry ==
    \/ RegisterStrategy
    \/ CustomLoadContext
    \/ Next

SpecRegistry == InitRegistry /\ [][NextRegistry]_vars

\* the registerStrategy calls made under a name, as indices of the history
RegisteredUnder(name) == {i \in 1..Len(registered) : registered[i].name = name}

\* the strategy most recently registered under a name; the constructor's
\* registrations come first
LatestRegistered(name) ==
    IF RegisteredUnder(name) # {}
    THEN registered[CHOOSE i \in RegisteredUnder(name) :
                        \A j \in RegisteredUnder(name) : j <= i].strategy
    ELSE IF name \in DOMAIN DefaultStrategies THEN DefaultStrategies[name] ELSE "none"

EverRegistered ==
    DOMAIN DefaultStrategies \cup {registered[i].name : i \in 1..Len(registered)}

BudgetBelowEveryCost == \A p \in FilePaths : call.opts.maxTokens < Tokens(p)

\* C16: when the caller's maxTokens is smaller than the estimated cost of every
\* candidate file (0 included), no file system operation fails and a focused
\* call has a focus, loadContext of each strategy does not fail, loads no file and has totalTokens = 0.
C16_TooSmallBudgetLoadsNothing ==
    (/\ call.api = "loadContext"
     /\ call.strat # "none"
     /\ fs.fault = NoFault
     /\ call.strat = "focused" => HasFocus(call.opts)
     /\ BudgetBelowEveryCost)
        => (pc # "failed" /\ files = <<>> /\ totalTokens = 0)

\* the same for a positive maxTokens only
C16_TooSmallPositiveBudgetLoadsNothing ==
    (/\ call.api = "loadContext"
     /\ call.strat # "none"
     /\ fs.fault = NoFault
     /\ call.strat = "focused" => HasFocus(call.opts)
     /\ call.opts.maxTokens > 0
     /\ BudgetBelowEveryCost)
        => (pc # "failed" /\ files = <<>> /\ totalTokens = 0)

\* a call with a positive maxTokens below every cost has returned
C16_PositiveTooSmallReturned ==
    /\ call.api = "loadContext"
    /\ call.opts.maxTokens > 0
    /\ BudgetBelowEveryCost
    /\ call.strat = "focused" => HasFocus(call.opts)
    /\ pc = "loaded"


\* C17: getTokenInfo on a content whose estimated total is 0 returns
\* totalTokens = 0 and a breakdown in which every category is the number 0.
C17_ZeroTotalAllZero ==
    (/\ optimizing.op = "getTokenInfo"
     /\ optimizing.phase = "returned"
     /\ optimizing.out.totalTokens = 0)
        => \A k \in Categories :
               /\ optimizing.out.breakdown[k].kind = "number"
               /\ optimizing.out.breakdown[k].num = 0

\* for a positive total every category is a number that is not negative
C17_PositiveTotalPercentages ==
    (/\ optimizing.op = "getTokenInfo"
     /\ optimizing.phase = "returned"
     /\ optimizing.out.totalTokens > 0)
        => \A k \in Categories :
               /\ optimizing.out.breakdown[k].kind = "number"
               /\ optimizing.out.breakdown[k].num >= 0


FactorNames ==
    {"pathScore", "nameScore", "typeScore", "depthScore", "sizeScore", "recencyScore"}

\* C18: every factor returned by calculateRelevance lies in [0, 100], also for
\* a file path with fewer segments than the context path.
C18_FactorsInRange ==
    \A k \in 1..Len(scoring.settled) :
        \A f \in FactorNames :
            /\ scoring.settled[k].rel.factors[f] >= 0
            /\ scoring.settled[k].rel.factors[f] <= 100

\* the factors other than depthScore lie in [0, 100]
C18_OtherFactorsInRange ==
    \A k \in 1..Len(scoring.settled) :
        \A f \in FactorNames \ {"depthScore"} :
            /\ scoring.settled[k].rel.factors[f] >= 0
            /\ scoring.settled[k].rel.factors[f] <= 100

(***************************************************************************)
(* BreadthFirstLoadingStrategy.sortEntries on its own.                     *)
(***************************************************************************)
MaxEntries == 4

EntryNames ==
    {"README.md", "package.json", "app.ts", "util.ts", "auth.ts", "index.ts", "index.py",
     "main.py"}

\* the listings of a directory: names without repetition, in any order
EntryLists ==
    {s \in UNION {[1..n -> EntryNames] : n \in 1..MaxEntries} :
        \A i, j \in DOMAIN s : s[i] = s[j] => i = j}

InitSort == InitChunk

\* sortEntries(entries)
SortEntriesCall ==
    /\ sorting.phase = "idle"
    /\ \E entries \in EntryLists :
         sorting' = [phase |-> "returned", entries |-> entries, out |-> SortEntries(entries)]
    /\ UNCHANGED <<LoaderVars, clock, scoring, chunking, optimizing, registered, pair>>

NextSort == SortEntriesCall

SpecSort == InitSort /\ [][NextSort]_vars

\* the priority table as the claim words it: index.*, main.* and app.* with
\* any extension
StemPriority(name) ==
    CASE name = "README.md"                -> 1
      [] name = "package.json"             -> 2
      [] name \in {"index.ts", "index.py"} -> 4
      [] name = "main.py"                  -> 5
      [] name = "app.ts"                   -> 6
      [] OTHER                             -> 999

\* C19: the entries come out in ascending priority with index.*, main.* and
\* app.* of any extension ranked 4, 5 and 6, so that such a file precedes every
\* unranked file, and [app.ts, package.json, README.md, util.ts] comes out as
\* README.md, package.json, app.ts, util.ts.
C19_StemsBeforeUnranked ==
    sorting.phase = "returned" =>
        /\ \A i, j \in 1..Len(sorting.out) :
               (StemPriority(sorting.out[i]) < 999 /\ StemPriority(sorting.out[j]) = 999)
                   => i < j
        /\ sorting.entries = <<"app.ts", "package.json", "README.md", "util.ts">>
               => sorting.out = <<"README.md", "package.json", "app.ts", "util.ts">>

\* the names of the table of sortEntries precede every other name, and the
\* example of the claim comes out as stated
C19_TableNamesBeforeOthers ==
    sorting.phase = "returned" =>
        /\ \A i, j \in 1..Len(sorting.out) :
               (BFPriority(sorting.out[i]) < 999 /\ BFPriority(sorting.out[j]) = 999)
                   => i < j
        /\ sorting.entries = <<"app.ts", "package.json", "README.md", "util.ts">>
               => sorting.out = <<"README.md", "package.json", "app.ts", "util.ts">>

C19_ExampleSorted ==
    /\ sorting.phase = "returned"
    /\ sorting.entries = <<"app.ts", "package.json", "README.md", "util.ts">>


\* the stages that scan candidates against a budget
ScanStages == {"focus_scan", "bf_scan", "relevant", "docs"}

\* the running total, the budget and the admitted files of the stage in progress
RunningTotal == IF pc = "focus_scan" THEN totalTokens ELSE sub.used

ScanBudget == IF pc = "focus_scan" THEN MaxTokens ELSE sub.budget

Admitted == IF pc = "focus_scan" THEN files ELSE sub.files

\* the entry at the head of the queue is a file the stage reads, and the read succeeds
ReadableCandidate(item) ==
    /\ ~ReadFails(item.p)
    /\ item.k = "bfentry" =>
           /\ ~BFShouldExclude(Basename(item.p))
           /\ ~StatFails(item.p)
           /\ BFShouldIncludeFile(Basename(item.p))

\* a turn of a scan at a candidate (not at a directory Breadth-First is about to list)
ScanTurn == pc \in ScanStages /\ pc' = pc /\ queue # <<>> /\ Head(queue).k # "bfdir"

\* a turn below the budget at a docs-directory file whose read fails
FailedDocsRead ==
    /\ pc = "docs" /\ queue # <<>>
    /\ Head(queue).k = "docfile"
    /\ ReadFails(Head(queue).p)
    /\ RunningTotal < ScanBudget

\* what a turn does to the totals and the admitted files
TurnAdmits ==
    /\ RunningTotal >= ScanBudget => (queue' = <<>> /\ Admitted' = Admitted)
    /\ (RunningTotal < ScanBudget /\ Head(queue).p \notin FilePaths) =>
           (RunningTotal' = RunningTotal /\ Admitted' = Admitted)
    /\ (RunningTotal < ScanBudget /\ Head(queue).p \in FilePaths) =>
           /\ ReadableCandidate(Head(queue)) =>
                  ((/\ Contains(Admitted', Head(queue).p)
                    /\ RunningTotal' = RunningTotal + Tokens(Head(queue).p))
                   <=> RunningTotal + Tokens(Head(queue).p) <= ScanBudget)
           /\ RunningTotal' \in {RunningTotal, RunningTotal + Tokens(Head(queue).p)}
    /\ \A i \in 1..Len(Admitted) : Contains(Admitted', Admitted[i])

\* C20: in Focused, Breadth-First and Progressive's relevant and documentation
\* stages the candidates are taken in order; a turn that finds the running
\* total at or above the budget ends the scan and nothing else does: below the
\* budget the scan goes on with the next candidate, a readable candidate is
\* admitted iff running total + cost <= budget, and no admitted file is removed.
C20_ScanStopsOnlyAtBudget ==
    [][ScanTurn =>
           /\ TurnAdmits
           /\ RunningTotal < ScanBudget => queue' = Tail(queue)]_vars

\* the same, but for a read failure in a docs directory
C20_ScanStopsAtBudgetOrFailedDocsRead ==
    [][ScanTurn =>
           /\ TurnAdmits
           /\ (RunningTotal < ScanBudget /\ ~FailedDocsRead) => queue' = Tail(queue)]_vars

\* a candidate that did not fit was passed over and a later one admitted
C20_MisfitPassedOver ==
    /\ pc \in ScanStages
    /\ \E p \in hist.evaluated :
          /\ ~ReadFails(p)
          /\ ~Contains(Admitted, p)
          /\ ~Contains(files, p)
          /\ \E i \in 1..Len(Admitted) : Tokens(Admitted[i]) < Tokens(p)


HardStopStages == {"core", "config"}

\* a turn of the loop of stage 2 or of stage 3
HardStopTurn == pc \in HardStopStages /\ pc' = pc /\ queue # <<>>

StageOrder ==
    {<<"start", "core">>, <<"core", "config">>, <<"config", "relevant">>,
     <<"relevant", "docs">>, <<"docs", "loaded">>}

ConfigGate == 10 * totalTokens < 8 * MaxTokens

RelevantGate == call.opts.query \notin {Absent, ""} /\ 10 * totalTokens < 9 * MaxTokens

DocsGate == 100 * totalTokens < 95 * MaxTokens

\* C22: Progressive moves through core, config, relevant and documentation in
\* that order; a stage entered while its gate is false (0.8, 0.9 with a
\* non-empty query, 0.95 of maxTokens) has no candidate, evaluates no file and
\* adds no file.
C22_StagesInOrderBehindGates ==
    [][(call.strat = "progressive" /\ pc \notin {"idle", "loaded", "done", "failed"}) =>
           /\ (pc' # pc /\ pc' # "failed") => <<pc, pc'>> \in StageOrder
           /\ (pc = "core" /\ pc' = "config" /\ ~ConfigGate) =>
                  (queue' = <<>> /\ hist' = hist /\ files' = files)
           /\ (pc = "config" /\ pc' = "relevant" /\ ~RelevantGate) =>
                  (queue' = <<>> /\ sub'.files = <<>> /\ hist' = hist /\ files' = files)
           /\ (pc = "relevant" /\ pc' = "docs" /\ ~DocsGate') =>
                  (queue' = <<>> /\ sub'.files = <<>> /\ hist' = hist)
           /\ (pc = "relevant" /\ ~RelevantGate) =>
                  (pc' = "docs" /\ files' = files /\ totalTokens' = totalTokens)
           /\ (pc = "docs" /\ ~DocsGate) =>
                  (pc' = "loaded" /\ files' = files /\ totalTokens' = totalTokens)
           /\ (pc = "config" /\ queue = <<>>) => (files' = files /\ hist' = hist)]_vars

\* the config stage was passed over at 80% of maxTokens or more although the
\* running total was below maxTokens and package.json was not yet loaded
C22_ConfigStageSkippedBelowBudget ==
    /\ call.strat = "progressive"
    /\ pc = "config" /\ queue = <<>>
    /\ ~ConfigGate
    /\ totalTokens < MaxTokens
    /\ ~Contains(files, <<"package.json">>)


\* the lines of chunk i that addChunkOverlap has put before chunk i + 1, the
\* blank line of the separator not counted
PrependedLines(chunks, i) == SubSeq(chunks[i + 1].content, 1, chunks[i + 1].injected - 1)

IsSuffix(s, t) == Len(s) <= Len(t) /\ SubSeq(t, Len(t) - Len(s) + 1, Len(t)) = s

\* C23: the text prepended to chunk i + 1 is at most min(5, floor(0.1 * line
\* count of chunk i)) trailing lines of chunk i, so a chunk of fewer than 10
\* lines contributes no line, and chunk i + 1's tokenCount is the estimate of
\* its content after the prepend.
C23_OverlapWithinTenth ==
    chunking.phase = "returned" =>
        \A i \in 1..(Len(chunking.chunks) - 1) :
            /\ Len(PrependedLines(chunking.chunks, i))
                   <= Min(5, Len(chunking.chunks[i].content) \div 10)
            /\ IsSuffix(PrependedLines(chunking.chunks, i), chunking.chunks[i].content)
            /\ chunking.chunks[i + 1].tokenCount
                   = EstimateTokenCount(chunking.chunks[i + 1].content)

\* what holds of the overlap: the prepended lines are trailing lines of chunk i
\* and the tokenCount is the estimate of the content after the prepend
C23_OverlapIsSuffixAndCounted ==
    chunking.phase = "returned" =>
        \A i \in 1..(Len(chunking.chunks) - 1) :
            /\ IsSuffix(PrependedLines(chunking.chunks, i), chunking.chunks[i].content)
            /\ chunking.chunks[i + 1].tokenCount
                   = EstimateTokenCount(chunking.chunks[i + 1].content)


\* the estimate of the lines addChunkOverlap has put before a chunk
OverlapTokens(chunk) == EstimateTokenCount(SubSeq(chunk.content, 1, chunk.injected))

\* C24: before overlap is added every chunk has an estimated token count <= the
\* chunk size, for every content; so the first returned chunk has tokenCount <=
\* chunk size and any other returned chunk exceeds the chunk size by no more
\* than the tokens of its prepended overlap.
C24_ChunksWithinChunkSize ==
    /\ chunking.phase = "loop" =>
           \A i \in 1..Len(chunking.chunks) :
               chunking.chunks[i].tokenCount <= chunking.chunkSize
    /\ (chunking.phase = "returned" /\ chunking.chunks # <<>>) =>
           /\ chunking.chunks[1].tokenCount <= chunking.chunkSize
           /\ \A i \in 2..Len(chunking.chunks) :
                  chunking.chunks[i].tokenCount
                      <= chunking.chunkSize + OverlapTokens(chunking.chunks[i])

\* what holds of the sizes: the same for every chunk that is more than a single
\* line of the content; a line that alone exceeds the chunk size is a chunk of
\* its own
C24_ChunksWithinChunkSizeOrOneLine ==
    /\ chunking.phase = "loop" =>
           \A i \in 1..Len(chunking.chunks) :
               \/ chunking.chunks[i].tokenCount <= chunking.chunkSize
               \/ Len(chunking.chunks[i].content) = 1
    /\ (chunking.phase = "returned" /\ chunking.chunks # <<>>) =>
           /\ \/ chunking.chunks[1].tokenCount <= chunking.chunkSize
              \/ Len(chunking.chunks[1].content) = 1
           /\ \A i \in 2..Len(chunking.chunks) :
                  \/ chunking.chunks[i].tokenCount
                         <= chunking.chunkSize + OverlapTokens(chunking.chunks[i])
                  \/ Len(WithoutOverlap(chunking.chunks[i])) = 1


(***************************************************************************)
(* The loop of summarizeContent, turn by turn, checked under SpecOptimize. *)
(***************************************************************************)
\* a turn of the loop of summarizeContent
SummarizeTurn ==
    /\ optimizing.phase = "loop" /\ optimizing.op = "summarize"
    /\ optimizing.i <= Len(optimizing.sections)
    /\ optimizing'.phase = "loop"
    /\ optimizing' # optimizing

\* the sections of the loop are in descending order of importance
RankedByImportance ==
    \A j, k \in 1..Len(optimizing.sections) :
        j < k => CalculateSectionImportance(optimizing.sections[j])
                     >= CalculateSectionImportance(optimizing.sections[k])

\* the turn appends text, adds tokens to the count and goes on to the next
\* section
TurnAppends(text, tokens) ==
    /\ optimizing'.result = AppendBlock(optimizing.result, text)
    /\ optimizing'.currentTokens = optimizing.currentTokens + tokens
    /\ optimizing'.i = optimizing.i + 1

\* the turn leaves the loop, with the shorter form of the section appended
\* exactly when it fits
TurnClosesWithShorterForm(section) ==
    /\ optimizing'.i = Len(optimizing.sections) + 1
    /\ IF optimizing.currentTokens + EstimateTokenCount(ShorterSummary(section))
              <= optimizing.maxTokens
       THEN optimizing'.result = AppendBlock(optimizing.result, ShorterSummary(section))
       ELSE optimizing'.result = optimizing.result

\* C25: under the summarize strategy the sections are taken in descending order
\* of importance; a section that fits the remaining budget is appended in full,
\* its text unchanged; at the first section that does not fit only its short
\* one-line form is tried, appended only if it fits, and no later section is
\* attempted.
C25_FittingSectionsAppendedInFull ==
    [][SummarizeTurn =>
          /\ RankedByImportance
          /\ IF optimizing.currentTokens
                    + EstimateTokenCount(optimizing.sections[optimizing.i])
                    <= optimizing.maxTokens
             THEN TurnAppends(optimizing.sections[optimizing.i],
                              EstimateTokenCount(optimizing.sections[optimizing.i]))
             ELSE TurnClosesWithShorterForm(optimizing.sections[optimizing.i])]_vars

\* C25, amended: what is measured against the remaining budget and appended is
\* the section's regular summary (the tag of a code block; of another section
\* its marker lines and first three non-blank lines), not the section.
C25_FittingSummariesAppended ==
    [][SummarizeTurn =>
          /\ RankedByImportance
          /\ IF optimizing.currentTokens
                    + EstimateTokenCount(SummarizeSection(optimizing.sections[optimizing.i]))
                    <= optimizing.maxTokens
             THEN TurnAppends(SummarizeSection(optimizing.sections[optimizing.i]),
                              EstimateTokenCount(
                                  SummarizeSection(optimizing.sections[optimizing.i])))
             ELSE TurnClosesWithShorterForm(optimizing.sections[optimizing.i])]_vars

\* the loop was left at the second of at least three sections: the result is
\* the one-line summary of the first, a separator and the shorter form of the
\* second
C25_ClosedBeforeLastSection ==
    /\ optimizing.op = "summarize"
    /\ optimizing.phase = "loop"
    /\ optimizing.shortened
    /\ Len(optimizing.sections) >= 3
    /\ optimizing.i = Len(optimizing.sections) + 1
    /\ optimizing.result = AppendBlock(SummarizeSection(optimizing.sections[1]),
                                       ShorterSummary(optimizing.sections[2]))


(***************************************************************************)
(* focusSummary of the Focused strategy, checked under Spec.               *)
(***************************************************************************)
\* the scores recorded under 'relevance', one per file of the files map
LoadedScores == [i \in 1..Len(info.relevance) |-> info.relevance[i].score]

FocusedReturned == pc = "loaded" /\ call.strat = "focused"

\* C26: in every Focused run focusSummary.averageScore is a defined number, the
\* arithmetic mean of the scores of exactly the files of the returned files
\* map (0 when there is none), also when a candidate of higher score was
\* skipped; filesLoaded is the size of the files map and filesFound the number
\* of scored candidates.
C26_AverageOfLoadedFiles ==
    FocusedReturned =>
        /\ Len(info.relevance) = Len(files)
        /\ Len(info.scored) = Len(ScoreFilesByFocus(FindAllFiles, clock))
        /\ info.averageDefined
        /\ Len(files) > 0 => info.averageScore = SumSeq(LoadedScores) \div Len(files)

\* what holds of the summary: averageScore is the sum of the scores of the first
\* files.size scored candidates, loaded or not, divided by files.size, and is
\* defined exactly when a file was loaded
C26_AverageOfLeadingCandidates ==
    FocusedReturned =>
        /\ Len(info.relevance) = Len(files)
        /\ Len(info.scored) = Len(ScoreFilesByFocus(FindAllFiles, clock))
        /\ info.averageDefined <=> Len(files) > 0
        /\ Len(files) > 0 =>
              info.averageScore = SumSeq(SubSeq(info.scored, 1, Len(files))) \div Len(files)

\* a run that loaded a file after skipping a candidate of higher score, so that
\* the average counts the skipped candidate in place of a loaded one
C26_AverageCountsSkippedCandidate ==
    /\ FocusedReturned
    /\ Len(files) > 0
    /\ info.averageScore # SumSeq(LoadedScores) \div Len(files)


(***************************************************************************)
(* The scores of the Focused strategy, checked under Spec.                 *)
(***************************************************************************)
\* the scores the Focused strategy orders and filters by, records under
\* 'relevance' and averages
FocusedScores ==
    {info.scored[i] : i \in 1..Len(info.scored)}
        \cup {info.relevance[i].score : i \in 1..Len(info.relevance)}
        \cup (IF pc = "loaded" /\ info.averageDefined THEN {info.averageScore} ELSE {})

\* C27: every score the Focused strategy records for a loaded file and uses for
\* ordering, for the below-30 discard and for averageScore lies in [0,100],
\* also after the 1.5 boost per matching include pattern.
C27_FocusedScoresInRange ==
    call.strat = "focused" => \A s \in FocusedScores : 0 <= s /\ s <= Pts(100)

\* what holds of the scores: a candidate's score is at least 30 and at most 100
\* boosted once per include pattern its path matches
C27_FocusedScoresWithinBoost ==
    call.strat = "focused" =>
        /\ \A s \in FocusedScores : Pts(30) <= s
        /\ \A i \in 1..Len(info.relevance) :
               info.relevance[i].score
                   <= Boost(Pts(100), info.relevance[i].path,
                            IF call.opts.includePatterns.present
                            THEN call.opts.includePatterns.items ELSE <<>>)

\* a file loaded with a recorded score above 100
C27_LoadedAboveHundred ==
    /\ FocusedReturned
    /\ \E i \in 1..Len(info.relevance) : info.relevance[i].score > Pts(100)


(***************************************************************************)
(* The names no tree walk is to enter or collect, checked under Spec.      *)
(***************************************************************************)
\* the names of the list, and the names that begin with a dot
DefaultIgnored(name) ==
    \/ name \in {"node_modules", ".git", ".svn", ".hg", "dist", "build", "coverage",
                 ".cache", ".next", ".nuxt", ".turbo", "venv", "__pycache__",
                 ".pytest_cache", ".mypy_cache", "vendor", "tmp", "temp"}
    \/ StartsWithDot(name)

\* the paths a run has collected as candidates or as directories to list, read
\* or loaded; the breadth-first strategy's entries of a listing are tested
\* only when their turn comes
PathsReached ==
    {files[i] : i \in 1..Len(files)}
        \cup {sub.files[i] : i \in 1..Len(sub.files)}
        \cup {queue[i].p : i \in {j \in 1..Len(queue) : queue[j].k # "bfentry"}}
        \cup hist.evaluated

ThroughIgnored(p) == \E k \in 1..Len(p) : DefaultIgnored(p[k])

\* C28: in every strategy's tree walk no directory is descended into and no file
\* is collected or loaded whose name is one of the listed names or begins with
\* a dot.
C28_IgnoredNamesNeverReached ==
    \A p \in PathsReached : ~ThroughIgnored(p)

\* what holds of the walks: the breadth-first strategy reaches no such path;
\* the other two reach none through a name of their own, shorter lists
C28_OwnIgnoreListsRespected ==
    \A p \in PathsReached :
        /\ call.strat = "breadth-first" => ~ThroughIgnored(p)
        /\ call.strat = "focused" =>
               \A k \in 1..Len(p) : ~FocusedShouldExclude(p[k], SubSeq(p, 1, k))
        /\ call.strat = "progressive" =>
               \A k \in 1..Len(p) : ~ProgressiveShouldIgnore(p[k])

\* a Focused run that returned with the file of the directory tmp loaded
C28_FocusedLoadedFromTmp ==
    /\ FocusedReturned
    /\ Contains(files, <<"tmp", "util.ts">>)

\* a Progressive run that loaded the file of the directory tmp
C28_ProgressiveLoadedFromTmp ==
    /\ call.strat = "progressive"
    /\ Contains(files, <<"tmp", "util.ts">>)


C29_FocusedDoneAfterOneAnalysis ==
    /\ call.api = "aggregateContext"
    /\ call.strat = "focused"
    /\ pc = "done"
    /\ files # <<>>
    /\ hist.analyzed = 1


(***************************************************************************)
(* Two calls in progress on the same aggregator.  loadContext keeps files, *)
(* metadata, totalTokens and its loop state in locals, and aggregateContext*)
(* keeps the loaded context in a local; the instances hold the file system,*)
(* the scorer, the analyzer and the registry, which no call writes.  The   *)
(* calls take turns at their awaits: the variables of the loader hold the  *)
(* locals of the call that is running and pair.saved those of the call     *)
(* that is suspended.  A call that ran with no other call in progress is   *)
(* kept in pair.ref when its frame is given to a new call.                 *)
(***************************************************************************)
MaxPairResets == 1
PairBudget == 2

\* the locals of the running call
Locals ==
    [call |-> call, pc |-> pc, level |-> level, queue |-> queue, files |-> files,
     totalTokens |-> totalTokens, sub |-> sub, info |-> info, hist |-> hist]

\* the call of the frame has returned or thrown
Terminal(f) ==
    \/ f.pc \in {"done", "failed"}
    \/ f.pc = "loaded" /\ f.call.api = "loadContext"

\* the call of the frame has begun and not ended
InFlight(f) == f.pc # "idle" /\ ~Terminal(f)

ResumeSharedTotal(saved, running) == [saved EXCEPT !.totalTokens = running.totalTokens]

\* what the resumed call finds in its locals: what it left there
Resume(saved, running) == saved

PairOptions ==
    {o \in OptionChoices :
        /\ o.maxTokens \in {PairBudget, MaxBudget}
        /\ o.query \in {"auth", Absent}
        /\ o.includePatterns = NoList}

\* the calls of the two: the query is left out in Progressive calls only
PairCalls ==
    {c \in [api : {"aggregateContext", "loadContext"},
            name : {"progressive", "focused", "breadth-first"},
            strat : {"progressive", "focused", "breadth-first"},
            opts : PairOptions] :
        c.strat = c.name /\ (c.opts.query = Absent => c.name = "progressive")}

\* the file system of the two calls: src/auth.ts is long, the other files short
PairFs == [PlainFs EXCEPT !.len = [BaseLen EXCEPT ![<<"src", "auth.ts">>] = LongLen]]

InitPair == Init /\ fs = PairFs

\* a call begins in the running frame
PairStart ==
    /\ AggregateContext \/ LoadContext
    /\ call' \in PairCalls

\* the running call is suspended at an await and the other call goes on
Switch ==
    /\ pc # "idle" \/ pair.saved.pc # "idle"
    /\ \E resumed \in {Resume(pair.saved, Locals)} :
         /\ call' = resumed.call
         /\ pc' = resumed.pc
         /\ level' = resumed.level
         /\ queue' = resumed.queue
         /\ files' = resumed.files
         /\ totalTokens' = resumed.totalTokens
         /\ sub' = resumed.sub
         /\ info' = resumed.info
         /\ hist' = resumed.hist
    /\ pair' = [pair EXCEPT
          !.saved = Locals,
          !.aloneSaved = pair.aloneRunning /\ ~InFlight(Locals),
          !.aloneRunning = pair.aloneSaved
                              /\ (InFlight(Locals) => Terminal(pair.saved))]
    /\ UNCHANGED <<fs, strategies, clock, scoring, chunking, optimizing, sorting,
                   registered>>

\* the frame of a call that ran alone and has ended is given to a new call;
\* what it returned is kept
PairReset ==
    /\ Terminal(Locals)
    /\ pair.aloneRunning
    /\ pair.resets < MaxPairResets
    /\ pair' = [pair EXCEPT
          !.resets = @ + 1,
          !.ref = [call |-> call, pc |-> pc, files |-> files,
                   totalTokens |-> totalTokens],
          !.aloneRunning = ~InFlight(pair.saved)]
    /\ call' = NoCall
    /\ pc' = "idle"
    /\ level' = 0
    /\ queue' = <<>>
    /\ files' = <<>>
    /\ totalTokens' = 0
    /\ sub' = NoSub
    /\ info' = NoInfo
    /\ hist' = NoHist
    /\ UNCHANGED <<fs, strategies, clock, scoring, chunking, optimizing, sorting,
                   registered>>

NextPair ==
    \/ PairStart
    \/ Switch
    \/ PairReset
    \/ BFStart
    \/ BFLevel
    \/ BFScan
    \/ BFMerge
    \/ BFFinish
    \/ FocusedStart
    \/ FocusedStep
    \/ FocusedFinish
    \/ ProgressiveStart
    \/ CoreStep
    \/ ConfigStage
    \/ ConfigStep
    \/ RelevantStage
    \/ RelevantStep
    \/ DocsStage
    \/ DocsStep
    \/ ProgressiveFinish
    \/ AggregateFinish

SpecPair == InitPair /\ [][NextPair]_vars

====
